---- MODULE Spec2Model ----
(***************************************************************************)
(* Multi-Disease-Detection-Application: the prediction-and-logging         *)
(* pipeline (feature normalizer, model gateway, prediction log) together   *)
(* with the account and session handling of app/routes.py.                 *)
(*                                                                         *)
(* Text is modelled as a sequence of one-character strings, a float as an  *)
(* integer scaled by Scale, Python's None as NoneId (for an id) or as the  *)
(* empty set (for an Optional row or dict).                                *)
(***************************************************************************)
EXTENDS Integers, Sequences, FiniteSets, TLC

VARIABLES
    users,            \* rows of table users
    logs,             \* rows of table prediction_logs
    user_seq,         \* last id generated for table users
    log_seq,          \* last id generated for table prediction_logs
    session,          \* browser session -> user_id held in the cookie (NoneId: absent)
    clock,            \* wall clock in seconds, read by _now_iso
    heart_model,      \* ModelManager._heart_model (NoneId: None, else an instance id)
    brain_model,      \* ModelManager._brain_model
    heart_instances,  \* instance id -> load state of each HeartDiseaseModel constructed
    brain_created,    \* number of BrainTumorModel instances constructed
    load_calls,       \* number of load_model executions started
    heart_artifact,   \* whether app/data/saved_models/heart_model.pkl is on disk
    model_req,        \* request thread -> its position inside get_heart_model / get_brain_model
    register_req,     \* request thread -> its position inside AuthService.register
    predict_req,      \* request thread -> its position inside a prediction call
    uploads,          \* files saved under BRAIN_UPLOAD_DIR: path -> content
    storage_ok,       \* whether the database accepts writes at the moment
    ret               \* outcome of the last completed handler or service call

vars == <<users, logs, user_seq, log_seq, session, clock, heart_model, brain_model,
          heart_instances, brain_created, load_calls, heart_artifact, model_req,
          register_req, predict_req, uploads, storage_ok, ret>>

\* what only the threaded handlers and the environment of the process change
side_vars == <<register_req, predict_req, uploads, storage_ok>>

db_vars == <<users, logs, user_seq, log_seq>>
mm_vars == <<heart_model, brain_model, heart_instances, brain_created, load_calls,
            heart_artifact, model_req>>

----------------------------------------------------------------------------
(* Bounds of the model *)

MaxStrLen == 3        \* longest raw form value enumerated character by character
MaxPad == 1           \* whitespace added on each side of a binary spelling
MaxRegistrations == 2 \* rows ever inserted into users
MaxLogs == 2          \* rows ever inserted into prediction_logs by direct service calls
MaxSessionLogs == 1   \* rows ever inserted into prediction_logs by the requests of sessions
MaxClock == 1         \* last second the wall clock reaches
NumThreads == 2       \* request threads running inside one service call at once

NoneId == 0

----------------------------------------------------------------------------
(* Text helpers: what str.strip, str.lower and float() do on the alphabet   *)

Digits == {"0", "1", "5"}
Alphabet == Digits \cup {".", "-", "+", " ", "y", "N"}

RECURSIVE SeqsUpTo(_, _)
SeqsUpTo(S, n) ==
    IF n = 0 THEN {<<>>}
    ELSE LET shorter == SeqsUpTo(S, n - 1)
         IN shorter \cup {Append(s, c) : s \in {t \in shorter : Len(t) = n - 1}, c \in S}

RECURSIVE Pow10(_)
Pow10(n) == IF n = 0 THEN 1 ELSE 10 * Pow10(n - 1)

Scale == Pow10(MaxStrLen)

SetMin(S) == CHOOSE x \in S : \A y \in S : x <= y
SetMax(S) == CHOOSE x \in S : \A y \in S : y <= x

\* str.strip(): drop leading and trailing whitespace
strip(s) ==
    LET keep == {i \in 1..Len(s) : s[i] # " "}
    IN IF keep = {} THEN <<>> ELSE SubSeq(s, SetMin(keep), SetMax(keep))

LowerChar(c) ==
    CASE c = "A" -> "a" [] c = "B" -> "b" [] c = "C" -> "c" [] c = "D" -> "d"
      [] c = "E" -> "e" [] c = "F" -> "f" [] c = "G" -> "g" [] c = "H" -> "h"
      [] c = "I" -> "i" [] c = "J" -> "j" [] c = "K" -> "k" [] c = "L" -> "l"
      [] c = "M" -> "m" [] c = "N" -> "n" [] c = "O" -> "o" [] c = "P" -> "p"
      [] c = "Q" -> "q" [] c = "R" -> "r" [] c = "S" -> "s" [] c = "T" -> "t"
      [] c = "U" -> "u" [] c = "V" -> "v" [] c = "W" -> "w" [] c = "X" -> "x"
      [] c = "Y" -> "y" [] c = "Z" -> "z"
      [] OTHER -> c

UpperChar(c) ==
    CASE c = "a" -> "A" [] c = "b" -> "B" [] c = "c" -> "C" [] c = "d" -> "D"
      [] c = "e" -> "E" [] c = "f" -> "F" [] c = "g" -> "G" [] c = "h" -> "H"
      [] c = "i" -> "I" [] c = "j" -> "J" [] c = "k" -> "K" [] c = "l" -> "L"
      [] c = "m" -> "M" [] c = "n" -> "N" [] c = "o" -> "O" [] c = "p" -> "P"
      [] c = "q" -> "Q" [] c = "r" -> "R" [] c = "s" -> "S" [] c = "t" -> "T"
      [] c = "u" -> "U" [] c = "v" -> "V" [] c = "w" -> "W" [] c = "x" -> "X"
      [] c = "y" -> "Y" [] c = "z" -> "Z"
      [] OTHER -> c

\* a text compared as it was typed
lower_as_typed(s) == s

\* str.lower()
lower(s) == [i \in 1..Len(s) |-> LowerChar(s[i])]

DigitVal(c) == CASE c = "0" -> 0 [] c = "1" -> 1 [] c = "2" -> 2 [] c = "3" -> 3
                 [] c = "4" -> 4 [] c = "5" -> 5 [] c = "6" -> 6 [] c = "7" -> 7
                 [] c = "8" -> 8 [] c = "9" -> 9

AllDigits == {"0", "1", "2", "3", "4", "5", "6", "7", "8", "9"}

RECURSIVE DigitsVal(_)
DigitsVal(s) == IF s = <<>> THEN 0 ELSE 10 * DigitsVal(SubSeq(s, 1, Len(s) - 1)) + DigitVal(s[Len(s)])

\* The unsigned decimal literals float() accepts: digits with at most one point and
\* at least one digit.
IsDecimal(b) ==
    /\ \A i \in 1..Len(b) : b[i] \in AllDigits \cup {"."}
    /\ Cardinality({i \in 1..Len(b) : b[i] = "."}) <= 1
    /\ \E i \in 1..Len(b) : b[i] \in AllDigits

Unsigned(t) == IF t # <<>> /\ t[1] \in {"+", "-"} THEN Tail(t) ELSE t

\* float(text) succeeds: optional whitespace around, optional sign, a decimal literal
IsFloatLiteral(s) == IsDecimal(Unsigned(strip(s)))

DecimalVal(b) ==
    LET dots == {i \in 1..Len(b) : b[i] = "."}
        p == IF dots = {} THEN Len(b) + 1 ELSE SetMin(dots)
        ip == SubSeq(b, 1, p - 1)
        fp == SubSeq(b, p + 1, Len(b))
    IN DigitsVal(ip) * Scale + (DigitsVal(fp) * Scale) \div Pow10(Len(fp))

\* the value float(text) returns, scaled by Scale
FloatVal(s) ==
    LET t == strip(s)
    IN IF t # <<>> /\ t[1] = "-" THEN 0 - DecimalVal(Tail(t)) ELSE DecimalVal(Unsigned(t))

----------------------------------------------------------------------------
(* Feature Normalizer: PredictionService._parse_float, _parse_binary and the  *)
(* features dict of predict_heart_disease.  A form is a function from the    *)
(* field names present in the request to their raw text.                     *)

NumericFields == {"age", "trestbps", "chol", "thalach", "oldpeak", "ca",
                  "cp", "restecg", "slope", "thal"}
BinaryFields == {"sex", "fbs", "exang"}

\* key order of the features dict literal
FeatureOrder == <<"age", "sex", "cp", "trestbps", "chol", "fbs", "restecg",
                  "thalach", "exang", "oldpeak", "slope", "ca", "thal">>

\* form_data.get(name): the Optional raw value, {} for None
FormGet(form_data, name) == IF name \in DOMAIN form_data THEN {form_data[name]} ELSE {}

NoExc == "no exception"

\* the parse with "except ValueError" alone: the TypeError of a missing field escapes
_parse_float_value_error_only(value, default) ==
    IF value = {} THEN [exc |-> "TypeError", val |-> default]
    ELSE LET text == CHOOSE t \in value : TRUE
         IN IF IsFloatLiteral(text) THEN [exc |-> NoExc, val |-> FloatVal(text)]
            ELSE [exc |-> NoExc, val |-> default]

\* float(None) raises TypeError, float(text) raises ValueError on a text that is no
\* float literal; both are caught and the default returned.
_parse_float(value, default) ==
    IF value = {} THEN [exc |-> NoExc, val |-> default]
    ELSE LET text == CHOOSE t \in value : TRUE
         IN IF IsFloatLiteral(text) THEN [exc |-> NoExc, val |-> FloatVal(text)]
            ELSE [exc |-> NoExc, val |-> default]

TruthySpellings == {<<"1">>, <<"y", "e", "s">>, <<"y">>, <<"t", "r", "u", "e">>}
FalsySpellings == {<<"0">>, <<"n", "o">>, <<"n">>, <<"f", "a", "l", "s", "e">>}

\* the table looked up without lower()
_parse_binary_case_sensitive(val) ==
    IF val = {} THEN [exc |-> NoExc, val |-> 0]
    ELSE LET text == strip(CHOOSE t \in val : TRUE)
         IN IF text \in TruthySpellings THEN [exc |-> NoExc, val |-> 1 * Scale]
            ELSE [exc |-> NoExc, val |-> 0]

_parse_binary(val) ==
    IF val = {} THEN [exc |-> NoExc, val |-> 0]
    ELSE LET text == lower(strip(CHOOSE t \in val : TRUE))
         IN IF text \in TruthySpellings THEN [exc |-> NoExc, val |-> 1 * Scale]
            ELSE IF text \in FalsySpellings THEN [exc |-> NoExc, val |-> 0]
            ELSE [exc |-> NoExc, val |-> 0]

\* the parse applied to the form field of one feature
ParseField(form_data, name) ==
    IF name \in BinaryFields THEN _parse_binary(FormGet(form_data, name))
    ELSE _parse_float(FormGet(form_data, name), 0)

\* a features dict that also takes over the form fields it has no key for
BuildFeaturesFromWholeForm(form_data) ==
    LET known == [i \in 1..Len(FeatureOrder) |->
                     [key |-> FeatureOrder[i], value |-> ParseField(form_data, FeatureOrder[i]).val]]
    IN IF "note" \in DOMAIN form_data
       THEN Append(known, [key |-> "note", value |-> ParseField(form_data, "note").val])
       ELSE known

\* the features dict, as the sequence of its (key, value) items in insertion order
BuildFeatures(form_data) ==
    [i \in 1..Len(FeatureOrder) |->
        [key |-> FeatureOrder[i], value |-> ParseField(form_data, FeatureOrder[i]).val]]

\* the exceptions that escape the parsing of a form
ParseExceptions(form_data) ==
    {ParseField(form_data, FeatureOrder[i]).exc : i \in 1..Len(FeatureOrder)} \ {NoExc}

\* the f-string "age={age}, sex={sex}, ...": one (name, value) item per feature
HeartInputSummary(features) ==
    [i \in 1..Len(features) |-> <<features[i].key, "=", features[i].value>>]

----------------------------------------------------------------------------
(* Storage: tables users and prediction_logs behind db_manager               *)

HEART == "heart_disease"
BRAIN == "brain_tumor_multiclass"

UserIds == 1..MaxRegistrations

\* User.set_password / User.check_password: a salted hash that verifies exactly
\* the password it was made from
PasswordHash(password) == <<"hash", password>>
check_password(user, password) == user.password_hash = PasswordHash(password)

\* PredictionService._now_iso: the clock as fixed-width text, compared as text by
\* ORDER BY created_at
DigitChar(n) == CHOOSE c \in AllDigits : DigitVal(c) = n
_now_iso == <<DigitChar((clock \div 10) % 10), DigitChar(clock % 10)>>

RECURSIVE TextLess(_, _)
TextLess(a, b) ==
    IF b = <<>> THEN FALSE
    ELSE IF a = <<>> THEN TRUE
    ELSE IF a[1] # b[1] THEN DigitVal(a[1]) < DigitVal(b[1])
    ELSE TextLess(Tail(a), Tail(b))

\* a users table without unique constraints
UsersInsertAlwaysAccepted(table, username, email) == TRUE

\* INSERT INTO users: the table is unique on username and on email, the id is
\* generated.  The outcome is the new table, or the same table when the insert is
\* rejected with an integrity error.
UsersInsertAccepted(table, username, email) ==
    /\ \A u \in table : u.username # username
    /\ \A u \in table : u.email # email

NewUserRow(id, username, email, password) ==
    [id |-> id, username |-> username, email |-> email,
     password_hash |-> PasswordHash(password), created_at |-> _now_iso,
     updated_at |-> <<>>, is_active |-> 1]

\* INSERT INTO prediction_logs (...) VALUES (?, ?, ?, ?, ?, ?), with the generated id
NewLogRow(id, user_id, model_type, input_summary, prediction_result, probability, created_at) ==
    [id |-> id, user_id |-> user_id, model_type |-> model_type,
     input_summary |-> input_summary, prediction_result |-> prediction_result,
     probability |-> probability, created_at |-> created_at]

\* what a write raises while the database accepts none
StorageError == "sqlite3.Error"

\* db_manager.execute_and_get_id: one insert that returns the id it generated
execute_and_get_id(user_id, model_type, input_summary, prediction_result, probability) ==
    /\ log_seq' = log_seq + 1
    /\ logs' = logs \cup {NewLogRow(log_seq + 1, user_id, model_type, input_summary,
                                    prediction_result, probability, _now_iso)}

----------------------------------------------------------------------------
(* ReportService.get_prediction_for_user and ChatbotService._fetch_latest_prediction *)

\* the model_type argument: "" stands for None or an empty string (both falsy)
ModelTypeArgs == {"", HEART, BRAIN}

_row_to_log_dict(row) == row

\* the lookup without its ownership condition
PredictionRowsForAnyUser(log_id, user_id, model_type) ==
    {r \in logs : /\ r.id = log_id
                  /\ (model_type # "" => r.model_type = model_type)}

\* SELECT ... WHERE id = ? AND user_id = ? [AND model_type = ?]: the rows fetch_one
\* chooses from
PredictionRowsFor(log_id, user_id, model_type) ==
    {r \in logs : /\ r.id = log_id
                  /\ r.user_id = user_id
                  /\ (model_type # "" => r.model_type = model_type)}

\* the Optional dict returned: {} for None
get_prediction_for_user(log_id, user_id, model_type) ==
    {_row_to_log_dict(r) : r \in PredictionRowsFor(log_id, user_id, model_type)}

\* the query with ORDER BY created_at ASC
OldestRows(user_id, model_type) ==
    LET mine == {r \in logs : r.user_id = user_id /\ r.model_type = model_type}
    IN {r \in mine : \A q \in mine : ~TextLess(q.created_at, r.created_at)}

\* SELECT ... WHERE user_id = ? AND model_type = ? ORDER BY created_at DESC LIMIT 1:
\* the rows that may come first in that order
LatestRows(user_id, model_type) ==
    LET mine == {r \in logs : r.user_id = user_id /\ r.model_type = model_type}
    IN {r \in mine : \A q \in mine : ~TextLess(r.created_at, q.created_at)}

\* the Optional dicts _fetch_latest_prediction may return: {{}} when there is no row
_fetch_latest_prediction(user_id, model_type) ==
    IF LatestRows(user_id, model_type) = {} THEN {{}}
    ELSE {{r} : r \in LatestRows(user_id, model_type)}

----------------------------------------------------------------------------
(* Model Gateway: ModelManager and the two models' predict                    *)

Threads == 1..NumThreads
\* a request thread outside both getters: tmp is the local it holds inside a getter,
\* heart and brain the instances its last completed calls returned, exc what its
\* last get_heart_model call raised
IdleReq == [pc |-> "idle", tmp |-> NoneId, heart |-> NoneId, brain |-> NoneId, exc |-> NoExc]

\* numbers as Python holds them: the model hands out numpy floats, float() makes
\* a Python float of the same value
NpFloat(v) == [type |-> "numpy.float64", val |-> v]
float(x) == [type |-> "float", val |-> x.val]

\* HeartDiseaseModel.predict: a risk label and the model's confidence (in percent)
HeartOutcomes ==
    {[risk_label |-> "Low", probability |-> NpFloat(10)],
     [risk_label |-> "Medium", probability |-> NpFloat(50)],
     [risk_label |-> "High", probability |-> NpFloat(90)]}

\* BrainTumorModel.predict on the content of the image file: a result dict (which
\* may lack keys) or an exception
BrainPredict(content) ==
    CASE content = "mri_glioma" ->
            [exc |-> NoExc,
             result |-> [k \in {"predicted_class", "probability"} |->
                            IF k = "predicted_class" THEN "glioma" ELSE NpFloat(80)]]
      [] content = "mri_clear" ->
            [exc |-> NoExc,
             result |-> [k \in {"predicted_class", "probability"} |->
                            IF k = "predicted_class" THEN "no_tumor" ELSE NpFloat(70)]]
      [] content = "mri_odd" -> [exc |-> NoExc, result |-> <<>>]
      [] content = "not_an_image" -> [exc |-> "ValueError", result |-> <<>>]
      [] content = "mri_crash" -> [exc |-> "RuntimeError", result |-> <<>>]
      [] OTHER -> [exc |-> "FileNotFoundError", result |-> <<>>]

\* dict.get(key, default)
DictGet(d, key, default) == IF key \in DOMAIN d THEN d[key] ELSE default

\* get_heart_model run by one request without interruption: construct and load on
\* first use, then hand out the cached instance
HeartModelAfterGet ==
    IF heart_model = NoneId
    THEN /\ heart_instances' = Append(heart_instances, "loaded")
         /\ heart_model' = Len(heart_instances) + 1
         /\ load_calls' = load_calls + 1
    ELSE UNCHANGED <<heart_instances, heart_model, load_calls>>

BrainModelAfterGet ==
    IF brain_model = NoneId
    THEN /\ brain_created' = brain_created + 1
         /\ brain_model' = brain_created + 1
    ELSE UNCHANGED <<brain_created, brain_model>>

----------------------------------------------------------------------------
(* PredictionService                                                          *)

\* a table without the branch for 'Medium'
_generate_heart_suggestion_two_tiers(risk_label) ==
    IF risk_label = "High" THEN "Your risk is estimated as HIGH."
    ELSE "Your risk is estimated as LOW."

_generate_heart_suggestion(risk_label) ==
    IF risk_label = "High" THEN "Your risk is estimated as HIGH."
    ELSE IF risk_label = "Medium" THEN "Your risk is estimated as MEDIUM."
    ELSE "Your risk is estimated as LOW."

\* what a call handed back: op names the service function or the route that
\* answered, input is the form the call was given
RetOf(op, input, user_id, log_id, status, out) ==
    [op |-> op, input |-> input, user_id |-> user_id, log_id |-> log_id,
     status |-> status, out |-> out]
Ret(op, user_id, log_id, status, out) == RetOf(op, <<>>, user_id, log_id, status, out)

\* the VALUES tuple with int(probability), which drops the fraction below one
HeartLogValuesTruncated(user_id, input_summary, risk_label, probability) ==
    [user_id |-> user_id, model_type |-> HEART, input_summary |-> input_summary,
     prediction_result |-> risk_label,
     probability |-> [type |-> "int", val |-> 100 * (probability.val \div 100)]]

\* the row predict_heart_disease hands to the insert
HeartLogValues(user_id, input_summary, risk_label, probability) ==
    [user_id |-> user_id, model_type |-> HEART, input_summary |-> input_summary,
     prediction_result |-> risk_label, probability |-> float(probability)]

\* logging without the test for a user id
ShouldLogAlways(user_id) == TRUE

\* user_id is not None
ShouldLog(user_id) == user_id # NoneId

\* a service that catches the error of the INSERT and carries on
InsertRaisesNever(user_id) == FALSE

\* the INSERT is reached and raises; neither predict function has a handler around it
InsertRaises(user_id) == ShouldLog(user_id) /\ ~storage_ok

predict_heart_disease(form_data, user_id, outcome) ==
    LET features == BuildFeatures(form_data)
        risk_label == outcome.risk_label
        probability == outcome.probability
        input_summary == HeartInputSummary(features)
        v == HeartLogValues(user_id, input_summary, risk_label, probability)
        log_id == IF ShouldLog(user_id) THEN log_seq + 1 ELSE NoneId
    IN IF ParseExceptions(form_data) # {}
       THEN /\ ret' = RetOf("predict_heart_disease", form_data, user_id, NoneId,
                            CHOOSE e \in ParseExceptions(form_data) : TRUE, {})
            /\ UNCHANGED <<logs, log_seq, heart_instances, heart_model, load_calls>>
       ELSE IF InsertRaises(user_id)
       THEN /\ HeartModelAfterGet
            /\ ret' = RetOf("predict_heart_disease", form_data, user_id, NoneId,
                            StorageError, {})
            /\ UNCHANGED <<logs, log_seq>>
       ELSE /\ HeartModelAfterGet
            /\ IF ShouldLog(user_id)
               THEN execute_and_get_id(v.user_id, v.model_type, v.input_summary,
                                       v.prediction_result, v.probability)
               ELSE UNCHANGED <<logs, log_seq>>
            /\ ret' = RetOf("predict_heart_disease", form_data, user_id, log_id, "ok",
                          {[risk_label |-> risk_label, probability |-> probability,
                            features |-> features, input_summary |-> input_summary,
                            suggestion |-> _generate_heart_suggestion(risk_label),
                            log_id |-> log_id]})

TumorClasses == {"glioma", "meningioma", "pituitary"}

_generate_brain_suggestion(predicted_class, is_tumor, probability) ==
    IF predicted_class = "no_tumor" THEN "no_tumor: consult a neurologist or radiologist"
    ELSE "consult a neurologist or neurosurgeon"

BrainLogValues(user_id, input_summary, predicted_class, probability) ==
    [user_id |-> user_id, model_type |-> BRAIN, input_summary |-> input_summary,
     prediction_result |-> predicted_class, probability |-> probability]

\* predict_brain_tumor up to its return: the exception it ends with (if any), the
\* row it hands to the insert and the dict it returns
BrainCall(image_path, content, user_id) ==
    LET model_out == BrainPredict(content)
        model_result == model_out.result
        predicted_class == DictGet(model_result, "predicted_class", "unknown")
        probability == float(DictGet(model_result, "probability", NpFloat(0)))
        is_tumor == predicted_class \in TumorClasses
        input_summary == <<"image_path=", image_path>>
        log_id == IF ShouldLog(user_id) THEN log_seq + 1 ELSE NoneId
    IN [exc |-> IF model_out.exc # NoExc THEN model_out.exc
                ELSE IF InsertRaises(user_id) THEN StorageError
                ELSE NoExc,
        values |-> BrainLogValues(user_id, input_summary, predicted_class, probability),
        log_id |-> log_id,
        result |-> [predicted_class |-> predicted_class, probability |-> probability,
                    is_tumor |-> is_tumor, input_summary |-> input_summary,
                    suggestion |-> _generate_brain_suggestion(predicted_class,
                                                               is_tumor, probability),
                    log_id |-> log_id]]

\* what predict_brain_tumor does to the model cache and the log
BrainCallEffects(call, user_id) ==
    /\ BrainModelAfterGet
    /\ IF call.exc = NoExc /\ ShouldLog(user_id)
       THEN execute_and_get_id(call.values.user_id, call.values.model_type,
                               call.values.input_summary, call.values.prediction_result,
                               call.values.probability)
       ELSE UNCHANGED <<logs, log_seq>>

predict_brain_tumor(image_path, content, user_id) ==
    LET call == BrainCall(image_path, content, user_id)
    IN /\ BrainCallEffects(call, user_id)
       /\ ret' = IF call.exc # NoExc
                 THEN Ret("predict_brain_tumor", user_id, NoneId, call.exc, {})
                 ELSE Ret("predict_brain_tumor", user_id, call.log_id, "ok", {call.result})

----------------------------------------------------------------------------
(* AuthService and UserSettingsService, each call run without interruption    *)

\* SELECT * FROM users WHERE username = ?
UsernameRows(username) == {u \in users : u.username = username}
\* SELECT * FROM users WHERE email = ?
EmailRows(email) == {u \in users : u.email = email}
\* SELECT * FROM users WHERE email = ? OR username = ?
LoginRows(identifier) == {u \in users : u.email = identifier \/ u.username = identifier}
\* SELECT ... FROM users WHERE id = ?
_fetch_user_instance(user_id) == {u \in users : u.id = user_id}

\* db_manager.execute(INSERT INTO users ...): rejected with an integrity error when
\* the row breaks a unique constraint
InsertUser(username, email, password) ==
    IF storage_ok /\ UsersInsertAccepted(users, username, email)
    THEN /\ users' = users \cup {NewUserRow(user_seq + 1, username, email, password)}
         /\ user_seq' = user_seq + 1
    ELSE UNCHANGED <<users, user_seq>>

\* what register ends with after its INSERT: its success message, or the error the
\* INSERT raised
InsertUserStatus(username, email) ==
    IF ~storage_ok THEN StorageError
    ELSE IF UsersInsertAccepted(users, username, email) THEN "Registration successful."
    ELSE "IntegrityError"

AuthRegister(username, email, password) ==
    IF UsernameRows(username) # {}
    THEN /\ ret' = Ret("register", NoneId, NoneId, "Username is already taken.", {})
         /\ UNCHANGED <<users, user_seq>>
    ELSE IF EmailRows(email) # {}
    THEN /\ ret' = Ret("register", NoneId, NoneId, "Email is already registered.", {})
         /\ UNCHANGED <<users, user_seq>>
    ELSE /\ user_seq < MaxRegistrations
         /\ InsertUser(username, email, password)
         /\ ret' = Ret("register", NoneId, NoneId, InsertUserStatus(username, email), {})

\* a login without the test of is_active
AuthLoginIgnoringActive(identifier, password) ==
    IF LoginRows(identifier) = {}
    THEN {[success |-> FALSE, message |-> "User not found.", user |-> {}]}
    ELSE {IF ~check_password(u, password)
          THEN [success |-> FALSE, message |-> "Incorrect password.", user |-> {}]
          ELSE [success |-> TRUE, message |-> "", user |-> {u}]
          : u \in LoginRows(identifier)}

\* AuthService.login: the (success, result) pairs it may return
AuthLogin(identifier, password) ==
    IF LoginRows(identifier) = {}
    THEN {[success |-> FALSE, message |-> "User not found.", user |-> {}]}
    ELSE {IF ~check_password(u, password)
          THEN [success |-> FALSE, message |-> "Incorrect password.", user |-> {}]
          ELSE IF u.is_active = 0
          THEN [success |-> FALSE, message |-> "Account is deactivated.", user |-> {}]
          ELSE [success |-> TRUE, message |-> "", user |-> {u}]
          : u \in LoginRows(identifier)}

\* a DELETE without its WHERE clause
LogsAfterClearAll(user_id) == {r \in logs : FALSE}

\* a DELETE that spares the user's brain rows
LogsAfterClearHeartOnly(user_id) == {r \in logs : r.user_id # user_id \/ r.model_type # HEART}

\* DELETE FROM prediction_logs WHERE user_id = ?
LogsAfterClear(user_id) == {r \in logs : r.user_id # user_id}

\* the rows the DELETE removes are kept in out (the statement's rowcount, which the
\* service does not look at)
clear_prediction_history(user_id) ==
    IF ~storage_ok
    THEN /\ ret' = Ret("clear_prediction_history", user_id, NoneId, StorageError, {})
         /\ UNCHANGED logs
    ELSE /\ logs' = LogsAfterClear(user_id)
         /\ ret' = Ret("clear_prediction_history", user_id, NoneId,
                       "Prediction history cleared.",
                       {[rowcount |-> Cardinality(logs \ LogsAfterClear(user_id))]})

\* a DELETE that removes no row
UsersAfterDeleteNothing(user_id) == users

\* DELETE FROM users WHERE id = ?
UsersAfterDelete(user_id) == {u \in users : u.id # user_id}

\* a users table whose deletes cascade to the rows referring to it
LogsAfterUserDeleteCascade(user_id) == {r \in logs : r.user_id # user_id}

\* prediction_logs after the DELETE FROM users: the table is not touched
LogsAfterUserDelete(user_id) == logs

delete_account(user_id) ==
    IF ~storage_ok
    THEN /\ ret' = Ret("delete_account", user_id, NoneId, StorageError, {})
         /\ UNCHANGED <<users, logs>>
    ELSE /\ users' = UsersAfterDelete(user_id)
         /\ logs' = LogsAfterUserDelete(user_id)
         /\ ret' = Ret("delete_account", user_id, NoneId, "Your account has been deleted.", {})

\* an UPDATE without its WHERE clause
UsersAfterPasswordUpdateEveryRow(user_id, new_password) ==
    {[u EXCEPT !.password_hash = PasswordHash(new_password), !.updated_at = _now_iso]
     : u \in users}

\* UPDATE users SET password_hash = ?, updated_at = ? WHERE id = ?
UsersAfterPasswordUpdate(user_id, new_password) ==
    {IF u.id = user_id
     THEN [u EXCEPT !.password_hash = PasswordHash(new_password), !.updated_at = _now_iso]
     ELSE u : u \in users}

change_password(user_id, old_password, new_password, confirm_password) ==
    LET user == _fetch_user_instance(user_id)
        form == <<old_password, new_password, confirm_password>>
        fail(message) == /\ ret' = RetOf("change_password", form, user_id, NoneId, message, {})
                         /\ UNCHANGED users
    IN IF old_password = "" \/ new_password = "" \/ confirm_password = ""
       THEN fail("All password fields are required.")
       ELSE IF new_password # confirm_password
       THEN fail("New password and confirmation do not match.")
       ELSE IF user = {}
       THEN fail("User not found.")
       ELSE IF \E u \in user : ~check_password(u, old_password)
       THEN fail("Old password is incorrect.")
       ELSE IF ~storage_ok
       THEN fail(StorageError)
       ELSE /\ users' = UsersAfterPasswordUpdate(user_id, new_password)
            /\ ret' = RetOf("change_password", form, user_id, NoneId,
                            "Password updated successfully.", {})

----------------------------------------------------------------------------
(* ChatbotService.send_message                                                 *)

\* send_message up to its return: the exception it ends with (if any) and whether its
\* text names GROQ_API_KEY, the reply, and what the call touched on the way. env is
\* what the process finds around the call: no GROQ_API_KEY ("no_key"), a Groq client
\* that cannot be constructed ("client_error", "client_runtime_error"), or the way
\* the completion request ends ("llm_ok", "llm_error", "llm_bad_format")
send_message(user_id, user_message, env) ==
    LET medical_keywords ==
          {<<"h", "e", "a", "r", "t">>,
          <<"b", "r", "a", "i", "n">>,
          <<"t", "u", "m", "o", "r">>,
          <<"d", "i", "s", "e", "a", "s", "e">>,
          <<"s", "y", "m", "p", "t", "o", "m">>,
          <<"s", "y", "m", "p", "t", "o", "m", "s">>,
          <<"d", "o", "c", "t", "o", "r">>,
          <<"h", "o", "s", "p", "i", "t", "a", "l">>,
          <<"m", "e", "d", "i", "c", "i", "n", "e">>,
          <<"m", "e", "d", "i", "c", "a", "l">>,
          <<"m", "r", "i">>,
          <<"s", "c", "a", "n">>,
          <<"b", "l", "o", "o", "d">>,
          <<"p", "r", "e", "s", "s", "u", "r", "e">>,
          <<"c", "h", "o", "l", "e", "s", "t", "e", "r", "o", "l">>,
          <<"p", "a", "i", "n">>,
          <<"t", "r", "e", "a", "t", "m", "e", "n", "t">>,
          <<"h", "e", "a", "l", "t", "h">>,
          <<"h", "e", "a", "l", "t", "h", "y">>,
          <<"d", "i", "e", "t">>}
        \* "keyword in lower_msg"
        Contains(text, keyword) ==
            \E i \in 1..(Len(text) - Len(keyword) + 1) :
                SubSeq(text, i, i + Len(keyword) - 1) = keyword
        early(reply) == [exc |-> NoExc, names_key |-> FALSE, reply |-> reply,
                         context_read |-> FALSE, key_required |-> FALSE,
                         llm_called |-> FALSE]
        raised(exc, names_key) == [exc |-> exc, names_key |-> names_key, reply |-> "",
                                   context_read |-> TRUE, key_required |-> TRUE,
                                   llm_called |-> FALSE]
        answered(reply) == [exc |-> NoExc, names_key |-> FALSE, reply |-> reply,
                            context_read |-> TRUE, key_required |-> TRUE,
                            llm_called |-> TRUE]
    IN IF user_message = <<>>
       THEN early("Please enter a message so I can help you.")
       ELSE IF ~\E keyword \in medical_keywords : Contains(lower(user_message), keyword)
       THEN early("I'm designed only for medical and health-related questions.")
       ELSE IF env = "no_key" THEN raised("RuntimeError", TRUE)
       ELSE IF env = "client_runtime_error" THEN raised("RuntimeError", FALSE)
       ELSE IF env = "client_error" THEN raised("GroqError", FALSE)
       ELSE IF env = "llm_error"
       THEN answered("I'm sorry, but I'm having trouble contacting the AI model right now.")
       ELSE IF env = "llm_bad_format"
       THEN answered("I received an unexpected response format from the AI model.")
       ELSE answered("completion.choices[0].message.content")

----------------------------------------------------------------------------
(* app/routes.py: one action per request, run without interruption            *)

Sessions == {"s1", "s2"}

\* routes without the test of the session
LoggedInAlways(s) == TRUE

\* "user_id" in session
LoggedIn(s) == session[s] # NoneId

RedirectLogin == Ret("redirect", NoneId, NoneId, "Please log in", {})

route_register(username, email, password, confirm_password) ==
    /\ UNCHANGED <<logs, log_seq, session, clock, mm_vars, side_vars>>
    /\ IF username = "" \/ email = "" \/ password = ""
       THEN /\ ret' = Ret("/register", NoneId, NoneId, "All fields are required.", {})
            /\ UNCHANGED <<users, user_seq>>
       ELSE IF password # confirm_password
       THEN /\ ret' = Ret("/register", NoneId, NoneId, "Passwords do not match.", {})
            /\ UNCHANGED <<users, user_seq>>
       ELSE AuthRegister(username, email, password)

route_login(s, identifier, password) ==
    /\ UNCHANGED <<db_vars, clock, mm_vars, side_vars>>
    /\ IF identifier = "" \/ password = ""
       THEN /\ ret' = Ret("/login", NoneId, NoneId, "Please fill in all fields.", {})
            /\ UNCHANGED session
       ELSE \E r \in AuthLogin(identifier, password) :
              IF ~r.success
              THEN /\ ret' = Ret("login", NoneId, NoneId, r.message, {})
                   /\ UNCHANGED session
              ELSE \E user \in r.user :
                     /\ session' = [session EXCEPT ![s] = user.id]
                     /\ ret' = Ret("login", user.id, NoneId, "Welcome", {})

route_logout(s) ==
    /\ session' = [session EXCEPT ![s] = NoneId]
    /\ ret' = Ret("/logout", NoneId, NoneId, "You have been logged out.", {})
    /\ UNCHANGED <<db_vars, clock, mm_vars, side_vars>>

route_heart_disease(s, form_data, outcome) ==
    /\ UNCHANGED <<users, user_seq, session, clock, brain_model, brain_created,
                   heart_artifact, model_req, side_vars>>
    /\ IF ~LoggedIn(s)
       THEN /\ ret' = RedirectLogin
            /\ UNCHANGED <<logs, log_seq, heart_model, heart_instances, load_calls>>
       ELSE /\ log_seq < MaxSessionLogs
            /\ predict_heart_disease(form_data, session[s], outcome)

\* the uploaded file: werkzeug's secure_filename keeps the base name, Path.suffix is
\* its extension
secure_filename(filename) == [filename EXCEPT !.dir = ""]
LowerExt(ext) == CASE ext = ".PNG" -> ".png" [] ext = ".JPG" -> ".jpg" [] OTHER -> ext
\* the extensions widened to text files
ALLOWED_IMAGE_EXTENSIONS_AND_TEXT == {".png", ".jpg", ".jpeg", ".bmp", ".txt"}
ALLOWED_IMAGE_EXTENSIONS == {".png", ".jpg", ".jpeg", ".bmp"}
BRAIN_UPLOAD_DIR == "instance/uploads/brain"

\* what a route shows: the flashed text, the exception texts put into it (detail),
\* the exception texts printed to the console, the page rendered or redirected to
\* and the result handed to the template
Reply(op, user_id, flash, detail, printed, page) ==
    Ret(op, user_id, NoneId, flash,
        {[detail |-> detail, printed |-> printed, page |-> page, result |-> {}]})

\* a single handler for every exception
BrainErrorFlashGeneric(exc) == "There was a problem running the brain tumor prediction: {e}"

\* the "except" clause of brain_tumor that catches an exception of this class
BrainErrorFlash(exc) ==
    CASE exc = "FileNotFoundError" -> "Error: Image file not found. {e}"
      [] exc = "ValueError" -> "Error processing image: {e}. Please ensure you're uploading a valid image file."
      [] OTHER -> "There was a problem running the brain tumor prediction: {e}"

\* fault is what goes wrong around the request: nothing ("none"), the save of the
\* upload ("save_fails"), or the saved file being gone when the model opens it
\* ("file_gone"); the reply carries the posted file as its input
route_brain_tumor(s, file, fault) ==
    /\ UNCHANGED <<users, user_seq, session, clock, heart_model, heart_instances, load_calls,
                   heart_artifact, model_req, register_req, predict_req, storage_ok>>
    /\ IF ~LoggedIn(s)
       THEN /\ ret' = RedirectLogin
            /\ UNCHANGED <<logs, log_seq, brain_model, brain_created, uploads>>
       ELSE IF ~file.present \/ file.filename.stem = ""
       THEN /\ ret' = [Reply("/brain-tumor", NoneId, "Please select an MRI image to upload.",
                             {}, {}, "redirect brain_tumor") EXCEPT !.input = file]
            /\ UNCHANGED <<logs, log_seq, brain_model, brain_created, uploads>>
       ELSE LET filename == secure_filename(file.filename)
                ext == LowerExt(filename.ext)
                save_path == <<BRAIN_UPLOAD_DIR, filename.stem, filename.ext>>
                found == IF fault = "file_gone" THEN "" ELSE file.content
                call == BrainCall(save_path, found, session[s])
            IN IF ext \notin ALLOWED_IMAGE_EXTENSIONS
               THEN /\ ret' = [Reply("/brain-tumor", NoneId, "Unsupported file type.",
                                     {}, {}, "redirect brain_tumor") EXCEPT !.input = file]
                    /\ UNCHANGED <<logs, log_seq, brain_model, brain_created, uploads>>
               ELSE IF fault = "save_fails"
               THEN /\ ret' = [Reply("/brain-tumor", session[s],
                                     "There was a problem saving the uploaded image.",
                                     {}, {"OSError"}, "redirect brain_tumor")
                               EXCEPT !.input = file]
                    /\ UNCHANGED <<logs, log_seq, brain_model, brain_created, uploads>>
               ELSE /\ log_seq < MaxSessionLogs
                    /\ uploads' = IF fault = "file_gone"
                                  THEN {f \in uploads : f.path # save_path}
                                  ELSE {f \in uploads : f.path # save_path}
                                         \cup {[path |-> save_path, content |-> file.content]}
                    /\ BrainCallEffects(call, session[s])
                    /\ ret' = IF call.exc # NoExc
                              THEN [Reply("/brain-tumor", session[s], BrainErrorFlash(call.exc),
                                          {call.exc}, {call.exc}, "brain_tumor.html")
                                    EXCEPT !.input = file]
                              ELSE [Ret("predict_brain_tumor", session[s], call.log_id, "ok",
                                        {call.result}) EXCEPT !.input = file]

route_clear_history(s) ==
    /\ UNCHANGED <<users, user_seq, log_seq, session, clock, mm_vars, side_vars>>
    /\ IF ~LoggedIn(s)
       THEN /\ ret' = RedirectLogin
            /\ UNCHANGED logs
       ELSE clear_prediction_history(session[s])

route_delete_account(s) ==
    /\ UNCHANGED <<user_seq, log_seq, clock, mm_vars, side_vars>>
    /\ IF ~LoggedIn(s)
       THEN /\ ret' = RedirectLogin
            /\ UNCHANGED <<users, logs, session>>
       ELSE /\ delete_account(session[s])
            /\ session' = IF storage_ok THEN [session EXCEPT ![s] = NoneId] ELSE session

route_dashboard(s) ==
    /\ UNCHANGED <<db_vars, session, clock, mm_vars, side_vars>>
    /\ ret' = IF ~LoggedIn(s) THEN RedirectLogin
              ELSE Ret("/dashboard", session[s], NoneId, "dashboard.html", {})

route_chatbot(s, message, env) ==
    /\ UNCHANGED <<db_vars, session, clock, mm_vars, side_vars>>
    /\ LET user_message == strip(message)
           call == send_message(session[s], user_message, env)
       IN ret' =
            IF ~LoggedIn(s) THEN RedirectLogin
            ELSE IF user_message = <<>>
            THEN Ret("/chatbot", NoneId, NoneId, "Please type a message before sending.", {})
            ELSE IF call.exc = "RuntimeError" /\ call.names_key
            THEN Reply("/chatbot", session[s],
                       "Chatbot configuration error: GROQ_API_KEY environment variable is not set.",
                       {}, {call.exc}, "chatbot.html")
            ELSE IF call.exc = "RuntimeError"
            THEN Reply("/chatbot", session[s], "Chatbot error: {e}",
                       {call.exc}, {call.exc}, "chatbot.html")
            ELSE IF call.exc # NoExc
            THEN Reply("/chatbot", session[s],
                       "There was a problem contacting the AI doctor chatbot: {e}",
                       {call.exc}, {call.exc}, "chatbot.html")
            ELSE Ret("/chatbot", session[s], NoneId, "chatbot.html", {call})

\* get_profile is None exactly when the users row is gone
route_settings(s) ==
    /\ UNCHANGED <<db_vars, session, clock, mm_vars, side_vars>>
    /\ ret' = IF ~LoggedIn(s) THEN RedirectLogin
              ELSE IF _fetch_user_instance(session[s]) = {}
              THEN Ret("/settings", session[s], NoneId, "User not found.", {})
              ELSE Ret("/settings", session[s], NoneId, "settings.html",
                       {[id |-> u.id, username |-> u.username, email |-> u.email,
                         created_at |-> u.created_at, updated_at |-> u.updated_at]
                        : u \in _fetch_user_instance(session[s])})

route_change_password(s, old_password, new_password, confirm_password) ==
    /\ UNCHANGED <<logs, user_seq, log_seq, session, clock, mm_vars, side_vars>>
    /\ IF ~LoggedIn(s)
       THEN /\ ret' = RedirectLogin
            /\ UNCHANGED users
       ELSE change_password(session[s], old_password, new_password, confirm_password)

\* heart_report and brain_report differ in the model type, the flash text and the
\* file name only
ReportNotFoundFlash(model_type) ==
    IF model_type = HEART THEN "Heart prediction log not found."
    ELSE "Brain prediction log not found."

\* a report route that looks the id up first and compares the owner afterwards
ReportReplyRevealing(route, model_type, user_id, log_id) ==
    IF \A r \in logs : r.id # log_id
    THEN {Ret(route, user_id, log_id, ReportNotFoundFlash(model_type),
              {[page |-> "redirect dashboard"]})}
    ELSE {Ret(route, user_id, log_id, "You do not have access to this report.",
              {[page |-> "redirect dashboard"]})}

\* what a report route answers to a logged-in user: log_id is the id in the URL
ReportReply(route, model_type, user_id, log_id) ==
    LET log == get_prediction_for_user(log_id, user_id, model_type)
        row == _fetch_user_instance(user_id)
    IN IF log = {}
       THEN {Ret(route, user_id, log_id, ReportNotFoundFlash(model_type),
                 {[page |-> "redirect dashboard"]})}
       ELSE IF row = {}
       THEN {Ret(route, user_id, log_id, "User not found.", {[page |-> "redirect dashboard"]})}
       ELSE {Ret(route, user_id, log_id, "pdf", {[user |-> u, log |-> l]})
             : l \in log, u \in row}

route_report(s, log_id, model_type, route) ==
    /\ UNCHANGED <<db_vars, session, clock, mm_vars, side_vars>>
    /\ IF ~LoggedIn(s)
       THEN ret' = RedirectLogin
       ELSE ret' \in ReportReply(route, model_type, session[s], log_id)

route_heart_report(s, log_id) == route_report(s, log_id, HEART, "/reports/heart")
route_brain_report(s, log_id) == route_report(s, log_id, BRAIN, "/reports/brain")

----------------------------------------------------------------------------
(* Inputs                                                                     *)

\* the form of a complete request, and a form with padded and capitalised
\* spellings, a text that is no number, missing fields and a field the model
\* does not know
ExampleForm ==
    [k \in {"age", "sex", "cp", "trestbps", "chol", "fbs", "restecg", "thalach",
            "exang", "oldpeak", "slope", "ca", "thal"} |->
        CASE k = "age" -> <<"6", "3">> [] k = "sex" -> <<"1">> [] k = "cp" -> <<"3">>
          [] k = "trestbps" -> <<"1", "4", "5">> [] k = "chol" -> <<"2", "3", "3">>
          [] k = "fbs" -> <<"1">> [] k = "restecg" -> <<"0">>
          [] k = "thalach" -> <<"1", "5", "0">> [] k = "exang" -> <<"0">>
          [] k = "oldpeak" -> <<"2", ".", "3">> [] k = "slope" -> <<"0">>
          [] k = "ca" -> <<"0">> [] k = "thal" -> <<"1">>]

SparseForm ==
    [k \in {"age", "sex", "chol", "exang", "note"} |->
        CASE k = "age" -> <<" ", "5", "1">> [] k = "sex" -> <<" ", "Y", "e", "s">>
          [] k = "chol" -> <<"x">> [] k = "exang" -> <<"N", "O">>
          [] k = "note" -> <<"1">>]


NoFile == [present |-> FALSE, filename |-> [dir |-> "", stem |-> "", ext |-> ""], content |-> ""]
Upload(dir, stem, ext, content) ==
    [present |-> TRUE, filename |-> [dir |-> dir, stem |-> stem, ext |-> ext], content |-> content]

BrainUploads ==
    {NoFile, Upload("", "notes", ".txt", "not_an_image"),
     Upload("../", "scan", ".PNG", "mri_glioma"), Upload("", "scan", ".PNG", "not_an_image")}

Usernames == {"ann", "bob"}
Emails == {"ann@x", "bob@x"}
Accounts == {[username |-> "ann", email |-> "ann@x"], [username |-> "bob", email |-> "bob@x"]}

----------------------------------------------------------------------------
(* Spec: the requests of the browser sessions, handled one at a time          *)

Init ==
    /\ users = {}
    /\ logs = {}
    /\ user_seq = 0
    /\ log_seq = 0
    /\ session = [s \in Sessions |-> NoneId]
    /\ clock = 0
    /\ heart_model = NoneId
    /\ brain_model = NoneId
    /\ heart_instances = <<>>
    /\ brain_created = 0
    /\ load_calls = 0
    /\ heart_artifact = TRUE
    /\ model_req = [t \in Threads |-> IdleReq]
    /\ register_req = [t \in Threads |-> [pc |-> "idle"]]
    /\ predict_req = [t \in Threads |-> [pc |-> "idle"]]
    /\ uploads = {}
    /\ storage_ok = TRUE
    /\ ret = Ret("", NoneId, NoneId, "", {})

Next ==
    \/ \E account \in Accounts, confirm_password \in {"pw1", ""} :
          route_register(account.username, account.email, "pw1", confirm_password)
    \/ \E s \in Sessions, identifier \in Usernames, password \in {"pw1", "bad"} :
          route_login(s, identifier, password)
    \/ \E s \in Sessions : route_logout(s)
    \/ \E s \in Sessions, outcome \in {o \in HeartOutcomes : o.risk_label = "High"} :
          route_heart_disease(s, ExampleForm, outcome)
    \/ \E s \in Sessions, file \in BrainUploads : route_brain_tumor(s, file, "none")
    \/ \E s \in Sessions : route_clear_history(s)
    \/ \E s \in Sessions : route_delete_account(s)
    \/ \E s \in Sessions, log_id \in 1..(MaxSessionLogs + 1) : route_heart_report(s, log_id)
    \/ \E s \in Sessions, log_id \in 1..(MaxSessionLogs + 1) : route_brain_report(s, log_id)

Spec == Init /\ [][Next]_vars

----------------------------------------------------------------------------
(* AppSpec: every route, requested from one browser session that registers,   *)
(* logs in and out as either account                                          *)

ChatMessages == {<<>>, <<" ">>, <<"H", "i">>, <<"C", "h", "e", "s", "t", " ", "P", "a", "i", "n">>}

AppNext ==
    \/ \E account \in Accounts, confirm_password \in {"pw1", ""} :
          route_register(account.username, account.email, "pw1", confirm_password)
    \/ \E identifier \in Usernames, password \in {"pw1", "bad"} :
          route_login("s1", identifier, password)
    \/ route_logout("s1")
    \/ route_dashboard("s1")
    \/ \E outcome \in {o \in HeartOutcomes : o.risk_label = "High"} :
          route_heart_disease("s1", ExampleForm, outcome)
    \/ \E file \in BrainUploads : route_brain_tumor("s1", file, "none")
    \/ \E message \in ChatMessages : route_chatbot("s1", message, "llm_ok")
    \/ route_settings("s1")
    \/ \E old_password \in {"pw1", "bad"}, confirm_password \in {"pw2", ""} :
          route_change_password("s1", old_password, "pw2", confirm_password)
    \/ route_clear_history("s1")
    \/ route_delete_account("s1")
    \/ \E log_id \in 1..(MaxSessionLogs + 1) : route_heart_report("s1", log_id)
    \/ \E log_id \in 1..(MaxSessionLogs + 1) : route_brain_report("s1", log_id)

AppSpec == Init /\ [][AppNext]_vars

----------------------------------------------------------------------------
(* FaultSpec: one account's predictions and chatbot requests with the faults  *)
(* a request can meet: a write to the database that raises, an upload that    *)
(* cannot be saved or is gone when the model opens it, a model that raises,   *)
(* a chatbot without key, client or answer                                    *)

\* writes to the database start or stop raising
StorageFault ==
    /\ storage_ok' = ~storage_ok
    /\ UNCHANGED <<db_vars, session, clock, mm_vars, register_req, predict_req, uploads, ret>>

\* chatbot_service.send_message(user_id, user_message), with what it returned or raised
svc_send_message(user_id, user_message, env) ==
    /\ LET call == send_message(user_id, user_message, env)
       IN ret' = RetOf("send_message", <<user_message, env>>, user_id, NoneId,
                       IF call.exc # NoExc THEN call.exc ELSE "ok", {call})
    /\ UNCHANGED <<db_vars, session, clock, mm_vars, side_vars>>

FaultNext ==
    \/ route_register("ann", "ann@x", "pw1", "pw1")
    \/ route_login("s1", "ann", "pw1")
    \/ route_logout("s1")
    \/ \E outcome \in {o \in HeartOutcomes : o.risk_label = "High"} :
          route_heart_disease("s1", ExampleForm, outcome)
    \/ \E file \in BrainUploads \cup {Upload("", "", "", "mri_glioma"),
                                       Upload("", "scan", ".png", "mri_crash"),
                                       Upload("", "scan", ".png", "mri_glioma")},
          fault \in {"none", "save_fails", "file_gone"} :
          route_brain_tumor("s1", file, fault)
    \/ \E message \in ChatMessages,
          env \in {"no_key", "client_error", "client_runtime_error", "llm_ok", "llm_error",
                   "llm_bad_format"} :
          route_chatbot("s1", message, env)
    \/ \E user_message \in {<<>>, <<"H", "i">>, <<"P", "A", "I", "N", "T">>, <<"m", "r", "i">>},
          env \in {"no_key", "llm_ok", "llm_error", "llm_bad_format"} :
          svc_send_message(1, user_message, env)
    \/ StorageFault

FaultSpec == Init /\ [][FaultNext]_vars

----------------------------------------------------------------------------
(* AccountSpec: the life of the accounts.  One browser session registers,     *)
(* logs in and out and deletes its account, AuthService.login is also called  *)
(* directly, and an operator may clear the is_active flag of a row.  One of   *)
(* the accounts takes as its username the text another one gives as email.    *)

CrossAccounts ==
    {[username |-> "ann", email |-> "ann@x"],
     [username |-> "ann@x", email |-> "amy@x"],
     [username |-> "bob", email |-> "bob@x"]}

\* auth_service.login(identifier, password), with the pair it returned
svc_login(identifier, password) ==
    /\ \E r \in AuthLogin(identifier, password) :
          ret' = RetOf("AuthService.login", <<identifier, password>>,
                       IF r.success THEN (CHOOSE user \in r.user : TRUE).id ELSE NoneId,
                       NoneId, IF r.success THEN "True" ELSE r.message, r.user)
    /\ UNCHANGED <<db_vars, session, clock, mm_vars, side_vars>>

\* UPDATE users SET is_active = 0 WHERE id = ?, issued outside the application
deactivate_account(user_id) ==
    /\ \E u \in users : u.id = user_id /\ u.is_active = 1
    /\ users' = {IF u.id = user_id THEN [u EXCEPT !.is_active = 0] ELSE u : u \in users}
    /\ ret' = Ret("UPDATE users", user_id, NoneId, "", {})
    /\ UNCHANGED <<logs, user_seq, log_seq, session, clock, mm_vars, side_vars>>

AccountNext ==
    \/ \E account \in CrossAccounts :
          route_register(account.username, account.email, "pw1", "pw1")
    \/ \E identifier \in {"ann", "ann@x", "amy@x", "bob"}, password \in {"pw1", "bad"} :
          svc_login(identifier, password)
    \/ \E identifier \in {"ann", "ann@x", "amy@x", "bob", ""} :
          route_login("s1", identifier, "pw1")
    \/ route_logout("s1")
    \/ route_dashboard("s1")
    \/ route_delete_account("s1")
    \/ \E user_id \in UserIds : deactivate_account(user_id)

AccountSpec == Init /\ [][AccountNext]_vars

----------------------------------------------------------------------------
(* LogSpec: the prediction log driven through the services directly, with any *)
(* user id (None included), several forms and images, and a moving clock      *)

ServiceUserIds == {1, 2}

svc_predict_heart_disease(form_data, user_id, outcome) ==
    /\ ShouldLog(user_id) => log_seq < MaxLogs
    /\ predict_heart_disease(form_data, user_id, outcome)
    /\ UNCHANGED <<users, user_seq, session, clock, brain_model, brain_created,
                   heart_artifact, model_req, side_vars>>

svc_predict_brain_tumor(image_path, content, user_id) ==
    /\ ShouldLog(user_id) => log_seq < MaxLogs
    /\ predict_brain_tumor(image_path, content, user_id)
    /\ UNCHANGED <<users, user_seq, session, clock, heart_model, heart_instances, load_calls,
                   heart_artifact, model_req, side_vars>>

svc_clear_prediction_history(user_id) ==
    /\ clear_prediction_history(user_id)
    /\ UNCHANGED <<users, user_seq, log_seq, session, clock, mm_vars, side_vars>>

\* ChatbotService._build_user_medical_context: the latest heart and brain rows the
\* context text is built from
_build_user_medical_context(user_id) ==
    /\ IF user_id = NoneId
       THEN ret' = Ret("_build_user_medical_context", user_id, NoneId, "no user_id", {})
       ELSE \E heart \in _fetch_latest_prediction(user_id, HEART),
               brain \in _fetch_latest_prediction(user_id, BRAIN) :
              ret' = Ret("_build_user_medical_context", user_id, NoneId, "context",
                         {[heart |-> heart, brain |-> brain]})
    /\ UNCHANGED <<db_vars, session, clock, mm_vars, side_vars>>

\* a second of wall-clock time passes
Tick ==
    /\ clock < MaxClock
    /\ clock' = clock + 1
    /\ UNCHANGED <<db_vars, session, mm_vars, side_vars, ret>>

\* the forms posted with the answer the model gives to each
HeartRequests ==
    {[form_data |-> ExampleForm, outcome |-> [risk_label |-> "High", probability |-> NpFloat(90)]],
     [form_data |-> SparseForm, outcome |-> [risk_label |-> "Low", probability |-> NpFloat(10)]]}

ImagePaths == {<<BRAIN_UPLOAD_DIR, "scan", ".png">>}
ImageContents == {"mri_glioma", "mri_odd", "not_an_image"}

LogNext ==
    \/ \E request \in HeartRequests, user_id \in ServiceUserIds \cup {NoneId} :
          svc_predict_heart_disease(request.form_data, user_id, request.outcome)
    \/ \E image_path \in ImagePaths, content \in ImageContents,
          user_id \in ServiceUserIds \cup {NoneId} :
          svc_predict_brain_tumor(image_path, content, user_id)
    \/ \E user_id \in ServiceUserIds : svc_clear_prediction_history(user_id)
    \/ \E user_id \in ServiceUserIds \cup {NoneId} : _build_user_medical_context(user_id)
    \/ Tick

LogSpec == Init /\ [][LogNext]_vars

----------------------------------------------------------------------------
(* NormalizeSpec: one call of predict_heart_disease on a form in which one    *)
(* field holds any short text over Alphabet, or any padded and capitalised    *)
(* spelling of the binary table, or is missing                                *)

RECURSIVE CaseVariants(_)
CaseVariants(w) ==
    IF w = <<>> THEN {<<>>}
    ELSE {<<c>> \o v : c \in {w[1], UpperChar(w[1])}, v \in CaseVariants(Tail(w))}

Spaces(n) == [i \in 1..n |-> " "]

BinarySpellings ==
    UNION {{Spaces(l) \o v \o Spaces(r) : v \in CaseVariants(w), l \in 0..MaxPad, r \in 0..MaxPad}
           : w \in TruthySpellings \cup FalsySpellings}

RawTexts == SeqsUpTo(Alphabet, MaxStrLen) \cup BinarySpellings

\* ExampleForm with one field replaced by a raw text
FormWith(name, text) == [k \in DOMAIN ExampleForm |-> IF k = name THEN text ELSE ExampleForm[k]]
\* ExampleForm with one field missing
FormWithout(name) == [k \in DOMAIN ExampleForm \ {name} |-> ExampleForm[k]]

NormalizeForms ==
    {FormWith(name, text) : name \in DOMAIN ExampleForm, text \in RawTexts}
        \cup {FormWithout(name) : name \in DOMAIN ExampleForm}

NormalizeNext ==
    /\ ret.op = ""
    /\ \E form_data \in NormalizeForms :
          \E outcome \in {o \in HeartOutcomes : o.risk_label = "Medium"} :
             svc_predict_heart_disease(form_data, NoneId, outcome)

NormalizeSpec == Init /\ [][NormalizeNext]_vars

----------------------------------------------------------------------------
(* ModelSpec: request threads inside ModelManager.get_heart_model and         *)
(* get_brain_model, one attribute read, construction, attribute write or      *)
(* load_model call per step; nothing in the getters orders the threads        *)

rest_of_app == <<db_vars, session, clock, side_vars, ret>>

\* "if self._heart_model is None"
get_heart_model_test(t) ==
    /\ model_req[t].pc = "idle"
    /\ model_req' = [model_req EXCEPT ![t].pc =
                        IF heart_model = NoneId THEN "heart_construct" ELSE "heart_return"]
    /\ UNCHANGED <<heart_model, brain_model, heart_instances, brain_created, load_calls,
                   heart_artifact, rest_of_app>>

\* "HeartDiseaseModel(model_path=...)"
get_heart_model_construct(t) ==
    /\ model_req[t].pc = "heart_construct"
    /\ heart_instances' = Append(heart_instances, "constructed")
    /\ model_req' = [model_req EXCEPT ![t].pc = "heart_store",
                                      ![t].tmp = Len(heart_instances) + 1]
    /\ UNCHANGED <<heart_model, brain_model, brain_created, load_calls, heart_artifact,
                   rest_of_app>>

\* "self._heart_model = ..."
get_heart_model_store(t) ==
    /\ model_req[t].pc = "heart_store"
    /\ heart_model' = model_req[t].tmp
    /\ model_req' = [model_req EXCEPT ![t].pc = "heart_load"]
    /\ UNCHANGED <<brain_model, heart_instances, brain_created, load_calls, heart_artifact,
                   rest_of_app>>

\* "self._heart_model.load_model()": the attribute is read again and load_model starts
\* on whatever instance it holds now
get_heart_model_load(t) ==
    /\ model_req[t].pc = "heart_load"
    /\ load_calls' = load_calls + 1
    /\ model_req' = [model_req EXCEPT ![t].pc = "heart_loading", ![t].tmp = heart_model]
    /\ UNCHANGED <<heart_model, brain_model, heart_instances, brain_created, heart_artifact,
                   rest_of_app>>

\* load_model finishes: the instance is loaded, or the artifact is missing and the
\* call raises out of get_heart_model
HeartDiseaseModel_load_model(t) ==
    /\ model_req[t].pc = "heart_loading"
    /\ IF heart_artifact
       THEN /\ heart_instances' = [heart_instances EXCEPT ![model_req[t].tmp] = "loaded"]
            /\ model_req' = [model_req EXCEPT ![t].pc = "heart_return"]
       ELSE /\ model_req' = [model_req EXCEPT ![t].pc = "idle", ![t].tmp = NoneId,
                                              ![t].exc = "FileNotFoundError"]
            /\ UNCHANGED heart_instances
    /\ UNCHANGED <<heart_model, brain_model, brain_created, load_calls, heart_artifact,
                   rest_of_app>>

\* "return self._heart_model"
get_heart_model_return(t) ==
    /\ model_req[t].pc = "heart_return"
    /\ model_req' = [model_req EXCEPT ![t].pc = "idle", ![t].tmp = NoneId,
                                      ![t].heart = heart_model, ![t].exc = NoExc]
    /\ UNCHANGED <<heart_model, brain_model, heart_instances, brain_created, load_calls,
                   heart_artifact, rest_of_app>>

\* "if self._brain_model is None"
get_brain_model_test(t) ==
    /\ model_req[t].pc = "idle"
    /\ model_req' = [model_req EXCEPT ![t].pc =
                        IF brain_model = NoneId THEN "brain_construct" ELSE "brain_return"]
    /\ UNCHANGED <<heart_model, brain_model, heart_instances, brain_created, load_calls,
                   heart_artifact, rest_of_app>>

\* "BrainTumorModel()"
get_brain_model_construct(t) ==
    /\ model_req[t].pc = "brain_construct"
    /\ brain_created' = brain_created + 1
    /\ model_req' = [model_req EXCEPT ![t].pc = "brain_store", ![t].tmp = brain_created + 1]
    /\ UNCHANGED <<heart_model, brain_model, heart_instances, load_calls, heart_artifact,
                   rest_of_app>>

\* "self._brain_model = ..."
get_brain_model_store(t) ==
    /\ model_req[t].pc = "brain_store"
    /\ brain_model' = model_req[t].tmp
    /\ model_req' = [model_req EXCEPT ![t].pc = "brain_return"]
    /\ UNCHANGED <<heart_model, heart_instances, brain_created, load_calls, heart_artifact,
                   rest_of_app>>

\* "return self._brain_model"
get_brain_model_return(t) ==
    /\ model_req[t].pc = "brain_return"
    /\ model_req' = [model_req EXCEPT ![t].pc = "idle", ![t].tmp = NoneId,
                                      ![t].brain = brain_model]
    /\ UNCHANGED <<heart_model, brain_model, heart_instances, brain_created, load_calls,
                   heart_artifact, rest_of_app>>

\* train_heart_model.main writes heart_model.pkl
train_heart_model ==
    /\ ~heart_artifact
    /\ heart_artifact' = TRUE
    /\ UNCHANGED <<heart_model, brain_model, heart_instances, brain_created, load_calls,
                   model_req, rest_of_app>>

\* the process starts with or without a trained heart model on disk
ModelInit ==
    /\ users = {} /\ logs = {} /\ user_seq = 0 /\ log_seq = 0
    /\ session = [s \in Sessions |-> NoneId]
    /\ clock = 0
    /\ heart_model = NoneId /\ brain_model = NoneId
    /\ heart_instances = <<>> /\ brain_created = 0 /\ load_calls = 0
    /\ heart_artifact \in BOOLEAN
    /\ model_req = [t \in Threads |-> IdleReq]
    /\ register_req = [t \in Threads |-> [pc |-> "idle"]]
    /\ predict_req = [t \in Threads |-> [pc |-> "idle"]]
    /\ uploads = {}
    /\ storage_ok = TRUE
    /\ ret = Ret("", NoneId, NoneId, "", {})

ModelNext ==
    \/ \E t \in Threads : get_heart_model_test(t)
    \/ \E t \in Threads : get_heart_model_construct(t)
    \/ \E t \in Threads : get_heart_model_store(t)
    \/ \E t \in Threads : get_heart_model_load(t)
    \/ \E t \in Threads : HeartDiseaseModel_load_model(t)
    \/ \E t \in Threads : get_heart_model_return(t)
    \/ \E t \in Threads : get_brain_model_test(t)
    \/ \E t \in Threads : get_brain_model_construct(t)
    \/ \E t \in Threads : get_brain_model_store(t)
    \/ \E t \in Threads : get_brain_model_return(t)
    \/ train_heart_model

ModelSpec == ModelInit /\ [][ModelNext]_vars

----------------------------------------------------------------------------
(* AuthSpec: request threads inside POST /register, one storage operation of  *)
(* AuthService.register per step, next to account deletions                   *)

auth_frame == <<logs, log_seq, session, clock, mm_vars, predict_req, uploads, storage_ok>>

InRegister(t) == register_req[t].pc # "idle"

\* the form validation of the route, then the call of auth_service.register
register_post(t, username, email, password, confirm_password) ==
    /\ ~InRegister(t)
    /\ user_seq + Cardinality({o \in Threads : InRegister(o)}) < MaxRegistrations
    /\ IF username = "" \/ email = "" \/ password = ""
       THEN /\ ret' = Ret("/register", NoneId, NoneId, "All fields are required.", {})
            /\ UNCHANGED register_req
       ELSE IF password # confirm_password
       THEN /\ ret' = Ret("/register", NoneId, NoneId, "Passwords do not match.", {})
            /\ UNCHANGED register_req
       ELSE /\ register_req' = [register_req EXCEPT ![t] =
                                   [pc |-> "check_username", username |-> username,
                                    email |-> email, password |-> password]]
            /\ UNCHANGED ret
    /\ UNCHANGED <<users, user_seq, auth_frame>>

\* fetch_one("SELECT * FROM users WHERE username = ?")
register_check_username(t) ==
    /\ register_req[t].pc = "check_username"
    /\ IF UsernameRows(register_req[t].username) # {}
       THEN /\ ret' = Ret("register", NoneId, NoneId, "Username is already taken.", {})
            /\ register_req' = [register_req EXCEPT ![t] = [pc |-> "idle"]]
       ELSE /\ register_req' = [register_req EXCEPT ![t].pc = "check_email"]
            /\ UNCHANGED ret
    /\ UNCHANGED <<users, user_seq, auth_frame>>

\* fetch_one("SELECT * FROM users WHERE email = ?")
register_check_email(t) ==
    /\ register_req[t].pc = "check_email"
    /\ IF EmailRows(register_req[t].email) # {}
       THEN /\ ret' = Ret("register", NoneId, NoneId, "Email is already registered.", {})
            /\ register_req' = [register_req EXCEPT ![t] = [pc |-> "idle"]]
       ELSE /\ register_req' = [register_req EXCEPT ![t].pc = "insert"]
            /\ UNCHANGED ret
    /\ UNCHANGED <<users, user_seq, auth_frame>>

\* execute("INSERT INTO users ..."): the integrity error of a rejected insert is
\* caught neither by the service nor by the route
register_insert(t) ==
    /\ register_req[t].pc = "insert"
    /\ InsertUser(register_req[t].username, register_req[t].email, register_req[t].password)
    /\ ret' = Ret("register", NoneId, NoneId,
                  InsertUserStatus(register_req[t].username, register_req[t].email), {})
    /\ register_req' = [register_req EXCEPT ![t] = [pc |-> "idle"]]
    /\ UNCHANGED auth_frame

svc_delete_account(user_id) ==
    /\ delete_account(user_id)
    /\ UNCHANGED <<user_seq, log_seq, session, clock, mm_vars, side_vars>>

AuthNext ==
    \/ \E t \in Threads, username \in Usernames, email \in Emails,
          confirm_password \in {"pw1", ""} :
          register_post(t, username, email, "pw1", confirm_password)
    \/ \E t \in Threads : register_check_username(t)
    \/ \E t \in Threads : register_check_email(t)
    \/ \E t \in Threads : register_insert(t)
    \/ \E u \in users : svc_delete_account(u.id)

AuthSpec == Init /\ [][AuthNext]_vars

----------------------------------------------------------------------------
(* PasswordSpec: change_password called for any user id, with logins by       *)
(* username and email and either password before and after, and the deletion  *)
(* of accounts in between                                                     *)

svc_change_password(user_id, old_password, new_password, confirm_password) ==
    /\ change_password(user_id, old_password, new_password, confirm_password)
    /\ UNCHANGED <<logs, user_seq, log_seq, session, clock, mm_vars, side_vars>>

PasswordNext ==
    \/ \E account \in Accounts :
          route_register(account.username, account.email, "pw1", "pw1")
    \/ \E identifier \in Usernames \cup Emails, password \in {"pw1", "pw2"} :
          svc_login(identifier, password)
    \/ \E user_id \in UserIds, old_password \in {"pw1", "pw2", ""},
          new_password \in {"pw1", "pw2"}, confirm_password \in {"pw1", "pw2"} :
          svc_change_password(user_id, old_password, new_password, confirm_password)
    \/ \E u \in users : svc_delete_account(u.id)

PasswordSpec == Init /\ [][PasswordNext]_vars

----------------------------------------------------------------------------
(* PredictSpec: request threads inside predict_heart_disease and              *)
(* predict_brain_tumor, the INSERT with the retrieval of its id being one     *)
(* storage operation                                                          *)

\* a retrieval that reads the connection's last id before this call's INSERT ran
lastrowid_of_connection(t) == log_seq

\* what execute_and_get_id returns to the thread: the id its own INSERT generated
lastrowid(t) == log_seq + 1

\* the call up to the INSERT: features, model, prediction
predict_call(t, op, user_id) ==
    /\ predict_req[t].pc \in {"idle", "done"}
    /\ predict_req' = [predict_req EXCEPT ![t] =
                          [pc |-> IF ShouldLog(user_id) THEN "insert" ELSE "done",
                           op |-> op, user_id |-> user_id, log_id |-> NoneId]]
    /\ IF op = "predict_heart_disease"
       THEN HeartModelAfterGet /\ UNCHANGED <<brain_model, brain_created>>
       ELSE BrainModelAfterGet /\ UNCHANGED <<heart_model, heart_instances, load_calls>>
    /\ UNCHANGED <<db_vars, session, clock, heart_artifact, model_req, register_req,
                   uploads, storage_ok, ret>>

\* log_id = db_manager.execute_and_get_id(INSERT INTO prediction_logs ...)
predict_insert(t) ==
    /\ predict_req[t].pc = "insert"
    /\ log_seq < MaxLogs
    /\ LET user_id == predict_req[t].user_id
           v == IF predict_req[t].op = "predict_heart_disease"
                THEN HeartLogValues(user_id, HeartInputSummary(BuildFeatures(ExampleForm)),
                                    "High", NpFloat(90))
                ELSE BrainCall(<<BRAIN_UPLOAD_DIR, "scan", ".png">>, "mri_glioma",
                               user_id).values
       IN execute_and_get_id(v.user_id, v.model_type, v.input_summary,
                             v.prediction_result, v.probability)
    /\ predict_req' = [predict_req EXCEPT ![t].pc = "result", ![t].log_id = lastrowid(t)]
    /\ UNCHANGED <<users, user_seq, session, clock, mm_vars, register_req, uploads,
                   storage_ok, ret>>

\* return { ..., "log_id": log_id }
predict_return(t) ==
    /\ predict_req[t].pc = "result"
    /\ predict_req' = [predict_req EXCEPT ![t].pc = "done"]
    /\ ret' = Ret(predict_req[t].op, predict_req[t].user_id, predict_req[t].log_id, "ok", {})
    /\ UNCHANGED <<db_vars, session, clock, mm_vars, register_req, uploads, storage_ok>>

PredictNext ==
    \/ \E t \in Threads, op \in {"predict_heart_disease", "predict_brain_tumor"},
          user_id \in ServiceUserIds \cup {NoneId} :
          predict_call(t, op, user_id)
    \/ \E t \in Threads : predict_insert(t)
    \/ \E t \in Threads : predict_return(t)

PredictSpec == Init /\ [][PredictNext]_vars

----------------------------------------------------------------------------
(* UploadSpec: request threads inside POST /brain-tumor, from two sessions    *)
(* that are logged in as different users: the checks of the upload, the save  *)
(* and the prediction are separate steps, and the threads share the upload    *)
(* directory                                                                  *)

\* the form checks and "save_path = BRAIN_UPLOAD_DIR / filename"
brain_tumor_post(t, s, file) ==
    /\ predict_req[t].pc = "idle"
    /\ LoggedIn(s)
    /\ file.present /\ file.filename.stem # ""
    /\ LowerExt(secure_filename(file.filename).ext) \in ALLOWED_IMAGE_EXTENSIONS
    /\ predict_req' = [predict_req EXCEPT ![t] =
                          [pc |-> "save", user_id |-> session[s], file |-> file,
                           save_path |-> <<BRAIN_UPLOAD_DIR,
                                           secure_filename(file.filename).stem,
                                           secure_filename(file.filename).ext>>]]
    /\ UNCHANGED <<db_vars, session, clock, mm_vars, register_req, uploads, storage_ok, ret>>

\* "file.save(str(save_path))": the file at that path now holds this upload
brain_tumor_save(t) ==
    /\ predict_req[t].pc = "save"
    /\ uploads' = {f \in uploads : f.path # predict_req[t].save_path}
                     \cup {[path |-> predict_req[t].save_path,
                            content |-> predict_req[t].file.content]}
    /\ predict_req' = [predict_req EXCEPT ![t].pc = "predict"]
    /\ UNCHANGED <<db_vars, session, clock, mm_vars, register_req, storage_ok, ret>>

\* "prediction_service.predict_brain_tumor(str(save_path), user_id)": the model opens
\* the file that is at the path now
brain_tumor_predict(t) ==
    /\ predict_req[t].pc = "predict"
    /\ log_seq < MaxLogs
    /\ LET req == predict_req[t]
           found == (CHOOSE f \in uploads : f.path = req.save_path).content
           call == BrainCall(req.save_path, found, req.user_id)
       IN /\ BrainCallEffects(call, req.user_id)
          /\ ret' = [Ret("predict_brain_tumor", req.user_id, call.log_id, "ok", {call.result})
                     EXCEPT !.input = req.file]
    /\ predict_req' = [predict_req EXCEPT ![t] = [pc |-> "idle"]]
    /\ UNCHANGED <<users, user_seq, session, clock, heart_model, heart_instances, load_calls,
                   heart_artifact, model_req, register_req, uploads, storage_ok>>

\* two accounts exist and each is logged in from its own browser session
UploadInit ==
    /\ clock = 0
    /\ users = {NewUserRow(1, "ann", "ann@x", "pw1"), NewUserRow(2, "bob", "bob@x", "pw1")}
    /\ logs = {} /\ user_seq = 2 /\ log_seq = 0
    /\ session = [s \in Sessions |-> IF s = "s1" THEN 1 ELSE 2]
    /\ heart_model = NoneId /\ brain_model = NoneId
    /\ heart_instances = <<>> /\ brain_created = 0 /\ load_calls = 0
    /\ heart_artifact = TRUE
    /\ model_req = [t \in Threads |-> IdleReq]
    /\ register_req = [t \in Threads |-> [pc |-> "idle"]]
    /\ predict_req = [t \in Threads |-> [pc |-> "idle"]]
    /\ uploads = {}
    /\ storage_ok = TRUE
    /\ ret = Ret("", NoneId, NoneId, "", {})

UploadNext ==
    \/ \E t \in Threads, s \in Sessions,
          file \in {Upload("", "scan", ".png", "mri_glioma"),
                    Upload("../", "scan", ".png", "mri_clear"),
                    Upload("", "head", ".png", "mri_clear")} :
          brain_tumor_post(t, s, file)
    \/ \E t \in Threads : brain_tumor_save(t)
    \/ \E t \in Threads : brain_tumor_predict(t)

UploadSpec == UploadInit /\ [][UploadNext]_vars

----------------------------------------------------------------------------
(* InterpretSpec: the two heart interpreters applied to one label, which is   *)
(* any spelling of the three risk labels in capitals and small letters, a     *)
(* padded label, or another text                                              *)

\* ReportService._heart_risk_explanation
_heart_risk_explanation(risk_label) ==
    IF risk_label = "High"
    THEN "The model estimated a HIGH risk of heart disease based on the provided features."
    ELSE IF risk_label = "Medium"
    THEN "The model estimated a MEDIUM risk of heart disease."
    ELSE "The model estimated a LOW risk of heart disease."

InterpretLabels ==
    {"LOW", "LOw", "LoW", "Low", "lOW", "lOw", "loW", "low", "HIGH", "HIGh", "HIgH",
     "HIgh", "HiGH", "HiGh", "HigH", "High", "hIGH", "hIGh", "hIgH", "hIgh", "hiGH",
     "hiGh", "higH", "high", "Medium", "medium", "MEDIUM", " Low", "Low ", " High",
     "High ", "Medium ", "Unknown", "", "None", "Moderate", "Very High", "0", "1"}

generate_heart_suggestion ==
    /\ ret' = RetOf("_generate_heart_suggestion", ret.input, NoneId, NoneId,
                    _generate_heart_suggestion(ret.input), {})
    /\ UNCHANGED <<db_vars, session, clock, mm_vars, side_vars>>

heart_risk_explanation ==
    /\ ret' = RetOf("_heart_risk_explanation", ret.input, NoneId, NoneId,
                    _heart_risk_explanation(ret.input), {})
    /\ UNCHANGED <<db_vars, session, clock, mm_vars, side_vars>>

InterpretInit ==
    /\ users = {}
    /\ logs = {}
    /\ user_seq = 0
    /\ log_seq = 0
    /\ session = [s \in Sessions |-> NoneId]
    /\ clock = 0
    /\ heart_model = NoneId
    /\ brain_model = NoneId
    /\ heart_instances = <<>>
    /\ brain_created = 0
    /\ load_calls = 0
    /\ heart_artifact = TRUE
    /\ model_req = [t \in Threads |-> IdleReq]
    /\ register_req = [t \in Threads |-> [pc |-> "idle"]]
    /\ predict_req = [t \in Threads |-> [pc |-> "idle"]]
    /\ uploads = {}
    /\ storage_ok = TRUE
    /\ \E risk_label \in InterpretLabels : ret = RetOf("", risk_label, NoneId, NoneId, "", {})

InterpretNext == generate_heart_suggestion \/ heart_risk_explanation

InterpretSpec == InterpretInit /\ [][InterpretNext]_vars

----------------------------------------------------------------------------
(* Claims                                                                     *)

\* C1: a log row of user B is never returned by get_prediction_for_user to another
\* user A, whatever model_type is passed (none included), and a report route only
\* builds a PDF from a log whose user_id is the user_id of the requesting session.
C1_OwnershipScopedLookup ==
    /\ \A r \in logs, user_id \in UserIds \cup {NoneId}, model_type \in ModelTypeArgs :
          user_id # r.user_id => get_prediction_for_user(r.id, user_id, model_type) = {}
    /\ ret.status = "pdf" => \A pdf \in ret.out : pdf.log.user_id = ret.user_id

\* user A asked for the report of an existing heart log of user B and was told it
\* does not exist
C1_Witness ==
    /\ ret.op = "/reports/heart"
    /\ ret.status = ReportNotFoundFlash(HEART)
    /\ \E r \in logs : r.id = ret.log_id /\ r.model_type = HEART /\ r.user_id # ret.user_id

IsPredict(r) == r.op \in {"predict_heart_disease", "predict_brain_tumor"}
ModelTypeOf(op) == IF op = "predict_heart_disease" THEN HEART ELSE BRAIN
LabelOf(op, result) ==
    IF op = "predict_heart_disease" THEN result.risk_label ELSE result.predicted_class

\* C2: right after a prediction call with a user id returned log_id L, the lookup
\* get_prediction_for_user(L, same user) finds one record whose id is L and whose
\* user_id, model_type, input_summary, prediction_result and probability are the
\* values the call computed and returned.
C2_AppendGetRoundTrip ==
    (IsPredict(ret) /\ ret.status = "ok" /\ ret.user_id # NoneId) =>
        \A result \in ret.out, model_type \in {"", ModelTypeOf(ret.op)} :
            LET got == get_prediction_for_user(result.log_id, ret.user_id, model_type)
            IN /\ Cardinality(got) = 1
               /\ \A g \in got :
                     /\ g.id = result.log_id
                     /\ g.user_id = ret.user_id
                     /\ g.model_type = ModelTypeOf(ret.op)
                     /\ g.input_summary = result.input_summary
                     /\ g.prediction_result = LabelOf(ret.op, result)
                     /\ g.probability.val = result.probability.val

\* a heart prediction for a user has just returned and its row is found
C2_Witness ==
    /\ ret.op = "predict_heart_disease" /\ ret.status = "ok" /\ ret.user_id # NoneId
    /\ get_prediction_for_user(ret.log_id, ret.user_id, HEART) # {}

\* seconds since the start of the clock that a created_at text stands for
SecondsOf(created_at) == DigitsVal(created_at)

IsLatestOf(got, user_id, model_type) ==
    LET mine == {r \in logs : r.user_id = user_id /\ r.model_type = model_type}
    IN /\ (got = {}) <=> (mine = {})
       /\ \A g \in got : /\ g \in mine
                         /\ \A q \in mine : SecondsOf(q.created_at) <= SecondsOf(g.created_at)

C4_ClearHistory ==
    ret.op = "clear_prediction_history" =>
        /\ \A log_id \in 1..log_seq, model_type \in ModelTypeArgs :
              get_prediction_for_user(log_id, ret.user_id, model_type) = {}
        /\ \A model_type \in {HEART, BRAIN} :
              _fetch_latest_prediction(ret.user_id, model_type) = {{}}

\* a clear that removed two rows of the user has just returned
C4_Witness ==
    /\ ret.op = "clear_prediction_history"
    /\ \E o \in ret.out : o.rowcount >= 2

\* C5: a prediction call that returns inserts, when it has a user id, exactly one
\* row, with that user_id and the model type of the call, and returns its id; without
\* a user id it inserts nothing and returns the full result with log_id None.  The
\* steps looked at are those that leave the return of a prediction call in ret.
C5_LoggingConditional ==
    [][(IsPredict(ret') /\ ret'.status = "ok" /\ ret' # ret) =>
          IF ret'.user_id # NoneId
          THEN /\ ret'.log_id # NoneId
               /\ \E r \in logs' \ logs :
                     /\ logs' = logs \cup {r}
                     /\ r.id = ret'.log_id
                     /\ r.user_id = ret'.user_id
                     /\ r.model_type = ModelTypeOf(ret'.op)
               /\ \A result \in ret'.out : result.log_id = ret'.log_id
          ELSE /\ logs' = logs
               /\ ret'.log_id = NoneId
               /\ ret'.out # {}
               /\ \A result \in ret'.out : result.log_id = NoneId]_vars

\* a call without a user id has returned its result and the table is still empty
C5_Witness ==
    /\ IsPredict(ret) /\ ret.status = "ok" /\ ret.user_id = NoneId
    /\ ret.out # {} /\ logs = {} /\ log_seq = 0

\* the features dict of the result, as a function from key to value
FeatureValue(result, name) ==
    LET i == CHOOSE j \in 1..Len(result.features) : result.features[j].key = name
    IN result.features[i].value

\* C6: for every numeric form field that is missing or holds a text float() rejects,
\* the feature is exactly 0.0 and the call raises nothing; a text float() accepts
\* becomes that float.
C6_NumericNormalization ==
    ret.op = "predict_heart_disease" =>
        /\ ret.status = "ok"
        /\ \A result \in ret.out, name \in NumericFields :
              FeatureValue(result, name) =
                  IF name \notin DOMAIN ret.input THEN 0
                  ELSE IF IsFloatLiteral(ret.input[name]) THEN FloatVal(ret.input[name])
                  ELSE 0

\* a form with a missing numeric field, and one with a numeric field that is no
\* number, went through: taken together in C6_Witness by the field cp
C6_Witness ==
    /\ ret.op = "predict_heart_disease" /\ ret.status = "ok"
    /\ "cp" \in DOMAIN ret.input
    /\ ret.input["cp"] = <<"1", ".", ".">>
    /\ \A result \in ret.out : FeatureValue(result, "cp") = 0

\* C7: for sex, fbs and exang the feature is 1.0 when the trimmed, lower-cased text
\* is 1, yes, y or true, and 0.0 for 0, no, n, false, any other text and a missing
\* field; it is always 0.0 or 1.0 and nothing is raised.
C7_BinaryNormalization ==
    ret.op = "predict_heart_disease" =>
        /\ ret.status = "ok"
        /\ \A result \in ret.out, name \in BinaryFields :
              /\ FeatureValue(result, name) \in {0, Scale}
              /\ FeatureValue(result, name) = Scale <=>
                    /\ name \in DOMAIN ret.input
                    /\ lower(strip(ret.input[name])) \in
                          {<<"1">>, <<"y", "e", "s">>, <<"y">>, <<"t", "r", "u", "e">>}

\* the padded, capitalised spelling " Y" of the field sex became 1.0
C7_Witness ==
    /\ ret.op = "predict_heart_disease" /\ ret.status = "ok"
    /\ "sex" \in DOMAIN ret.input
    /\ ret.input["sex"] = <<" ", "Y">>
    /\ \A result \in ret.out : FeatureValue(result, "sex") = Scale

\* C8: over every interleaving of get_heart_model and get_brain_model calls on the
\* shared ModelManager at most one HeartDiseaseModel and at most one BrainTumorModel
\* is ever constructed, load_model is executed at most once, and all calls return
\* the same instance.
C8_LoadedOnce ==
    /\ Len(heart_instances) <= 1
    /\ brain_created <= 1
    /\ load_calls <= 1
    /\ \A t1, t2 \in Threads :
          /\ (model_req[t1].heart # NoneId /\ model_req[t2].heart # NoneId)
                => model_req[t1].heart = model_req[t2].heart
          /\ (model_req[t1].brain # NoneId /\ model_req[t2].brain # NoneId)
                => model_req[t1].brain = model_req[t2].brain

C10_NoOrphanCreation ==
    (IsPredict(ret) /\ ret.log_id # NoneId) =>
        /\ \E r \in logs : r.id = ret.log_id /\ r.user_id = ret.user_id
        /\ \E u \in users : u.id = ret.user_id

C12_NotFoundDoesNotLeak ==
    LET ReportRoutes == {[route |-> "/reports/heart", model_type |-> HEART],
                         [route |-> "/reports/brain", model_type |-> BRAIN]}
        Shown(reply) == [flash |-> reply.status, out |-> reply.out]
    IN /\ \A rt \in ReportRoutes, user_id \in UserIds, r \in logs :
             r.user_id # user_id =>
                {Shown(x) : x \in ReportReply(rt.route, rt.model_type, user_id, r.id)}
                  = {Shown(x) : x \in ReportReply(rt.route, rt.model_type, user_id,
                                                  log_seq + 1)}
       /\ \A rt \in ReportRoutes :
             (/\ ret.op = rt.route
              /\ \E r \in logs : r.id = ret.log_id /\ r.user_id # ret.user_id)
                => Shown(ret) = [flash |-> ReportNotFoundFlash(rt.model_type),
                                 out |-> {[page |-> "redirect dashboard"]}]

\* user A asked for the brain report of an existing brain log of user B
C12_Witness ==
    /\ ret.op = "/reports/brain"
    /\ \E r \in logs : r.id = ret.log_id /\ r.model_type = BRAIN /\ r.user_id # ret.user_id
    /\ \E u \in users : u.id = ret.user_id

\* C13: a prediction asked for with a user_id while the INSERT into prediction_logs
\* raises never ends as a normal result: the service call ends with the storage error
\* (the heart route has no handler for it, the brain route flashes an error text and
\* renders no result), and a normal result of a call with a user_id always
\* carries the id of a stored row, never the None of the call without user.
C13_WriteFailureDistinct ==
    [][(ret' # ret /\ ret'.user_id # NoneId
           /\ (IsPredict(ret') \/ ret'.op = "/brain-tumor")) =>
          /\ ret'.status = "ok" =>
                /\ storage_ok
                /\ \E r \in logs' \ logs : r.id = ret'.log_id
                /\ \A result \in ret'.out : result.log_id = ret'.log_id
          /\ ~storage_ok =>
                \/ ret'.status = StorageError /\ ret'.out = {}
                \/ /\ ret'.op = "/brain-tumor"
                   /\ \A shown \in ret'.out : shown.result = {}
                   /\ logs' = logs]_vars

\* the heart form was posted by a logged-in user while writes were failing
C13_Witness ==
    /\ ret.op = "predict_heart_disease" /\ ret.status = StorageError
    /\ ret.user_id # NoneId /\ ~storage_ok

\* C14: every error answer of the /brain-tumor and /chatbot routes shows a fixed text:
\* no exception's own message is part of the flashed text; the exception text is
\* only printed to the console.
C14_NoInternalDetail ==
    (ret.op \in {"/brain-tumor", "/chatbot"} /\ ret.status # "chatbot.html") =>
        \A shown \in ret.out : shown.detail = {}

\* C15: when predict_brain_tumor raises, the /brain-tumor route flashes one of three
\* different texts, the first exactly for FileNotFoundError, the second exactly for
\* ValueError and the third for every other exception; it renders the page with
\* result None, and the request has inserted no prediction_logs row.
C15_BrainFailureOutcomes ==
    [][(ret' # ret /\ ret'.op = "/brain-tumor") =>
          \A shown \in ret'.out : shown.page = "brain_tumor.html" =>
             /\ shown.result = {}
             /\ logs' = logs /\ log_seq' = log_seq
             /\ \E exc \in shown.printed :
                   /\ shown.printed = {exc}
                   /\ exc = "FileNotFoundError"
                         <=> ret'.status = "Error: Image file not found. {e}"
                   /\ exc = "ValueError"
                         <=> ret'.status = "Error processing image: {e}. Please ensure you're uploading a valid image file."
                   /\ exc \notin {"FileNotFoundError", "ValueError"}
                         <=> ret'.status = "There was a problem running the brain tumor prediction: {e}"]_vars

\* a logged-in user uploaded a file that is no image
C15_Witness ==
    /\ ret.op = "/brain-tumor" /\ ret.user_id # NoneId
    /\ \E shown \in ret.out : shown.printed = {"ValueError"} /\ shown.page = "brain_tumor.html"

\* C16: a POST to /brain-tumor with no file, with an empty filename, or with a filename
\* whose lower-cased extension is not .png, .jpg, .jpeg or .bmp is answered by a
\* redirect to the brain-tumor page with an error message; the request saves no file,
\* does not reach the model and inserts no row; and after it the same session can
\* post a proper image and get its prediction.
C16_UploadInputErrors ==
    /\ [][LET file == ret'.input
          IN (/\ ret' # ret /\ ret'.op = "/brain-tumor"
              /\ \/ ~file.present
                 \/ file.filename.stem = ""
                 \/ LowerExt(file.filename.ext) \notin {".png", ".jpg", ".jpeg", ".bmp"}) =>
                /\ ret'.status \in {"Please select an MRI image to upload.",
                                    "Unsupported file type."}
                /\ \A shown \in ret'.out :
                      shown.page = "redirect brain_tumor" /\ shown.result = {}
                /\ uploads' = uploads
                /\ brain_model' = brain_model /\ brain_created' = brain_created
                /\ logs' = logs /\ log_seq' = log_seq]_vars
    /\ [](\A s \in Sessions :
            (/\ ret.op = "/brain-tumor"
             /\ ret.status \in {"Please select an MRI image to upload.",
                                "Unsupported file type."}
             /\ session[s] # NoneId /\ storage_ok /\ log_seq < MaxSessionLogs)
               => ENABLED (/\ route_brain_tumor(s, Upload("", "scan", ".png", "mri_glioma"),
                                                "none")
                           /\ ret'.status = "ok"
                           /\ \E r \in logs' \ logs : r.id = ret'.log_id))

\* a text file was refused while nothing had been uploaded or predicted yet
C16_Witness ==
    /\ ret.op = "/brain-tumor" /\ ret.status = "Unsupported file type."
    /\ session["s1"] # NoneId
    /\ uploads = {} /\ brain_model = NoneId /\ logs = {}

HeartTier(text) ==
    CASE text \in {"Your risk is estimated as HIGH.",
                   "The model estimated a HIGH risk of heart disease based on the provided features."}
            -> "HIGH"
      [] text \in {"Your risk is estimated as MEDIUM.",
                   "The model estimated a MEDIUM risk of heart disease."} -> "MEDIUM"
      [] text \in {"Your risk is estimated as LOW.",
                   "The model estimated a LOW risk of heart disease."} -> "LOW"
      [] OTHER -> "none"

\* C18 (as stated): _generate_heart_suggestion returns the HIGH text exactly when the
\* label is 'High', the MEDIUM text exactly when it is 'Medium' and the LOW text
\* exactly when it is 'Low', and _heart_risk_explanation selects the same tier.
C18_ThreeBranchLookup ==
    ret.op \in {"_generate_heart_suggestion", "_heart_risk_explanation"} =>
        /\ HeartTier(ret.status) = "HIGH" <=> ret.input = "High"
        /\ HeartTier(ret.status) = "MEDIUM" <=> ret.input = "Medium"
        /\ HeartTier(ret.status) = "LOW" <=> ret.input = "Low"

\* C18 (amended): _generate_heart_suggestion returns the HIGH text exactly when the
\* label is 'High', the MEDIUM text exactly when it is 'Medium' and the LOW text for
\* every other label, 'Low' included; the text depends on the label alone, and
\* _heart_risk_explanation selects the same tier for every label.
C18_ThreeBranchLookupAmended ==
    ret.op \in {"_generate_heart_suggestion", "_heart_risk_explanation"} =>
        /\ HeartTier(ret.status) = "HIGH" <=> ret.input = "High"
        /\ HeartTier(ret.status) = "MEDIUM" <=> ret.input = "Medium"
        /\ HeartTier(ret.status) = "LOW" <=> ret.input \notin {"High", "Medium"}
        /\ ret.status = IF ret.op = "_generate_heart_suggestion"
                        THEN _generate_heart_suggestion(ret.input)
                        ELSE _heart_risk_explanation(ret.input)
        /\ HeartTier(_generate_heart_suggestion(ret.input))
             = HeartTier(_heart_risk_explanation(ret.input))

\* the report's explanation for the label 'Unknown', which generate_heart_report
\* passes when a row has no prediction_result
C18_Witness ==
    /\ ret.op = "_heart_risk_explanation" /\ ret.input = "Unknown"
    /\ HeartTier(ret.status) = "LOW"

\* C19: delete_account(user_id) removes the users row with that id and leaves the
\* prediction_logs table as it was, the rows of the deleted user included.
C19_DeleteKeepsLogs ==
    [][(ret' # ret /\ ret'.op = "delete_account"
           /\ ret'.status = "Your account has been deleted.") =>
          /\ users' = {u \in users : u.id # ret'.user_id}
          /\ logs' = logs]_vars

\* an account with a stored prediction was deleted
C19_Witness ==
    /\ ret.op = "delete_account" /\ ret.status = "Your account has been deleted."
    /\ \E r \in logs : r.user_id = ret.user_id
    /\ \A u \in users : u.id # ret.user_id

\* C20: a request to any route other than /, /register, /login and /logout made while
\* the session holds no user_id is answered by the redirect to the login page and
\* changes nothing: no model is obtained, no file saved, no row inserted or deleted,
\* no password changed, no account deleted; and a session comes to hold a user_id
\* only in a login step whose AuthService.login call succeeded for that user.
C20_SessionAccessControl ==
    [][/\ (/\ \A s \in Sessions : session[s] = NoneId
           /\ ret'.op \notin {"register", "/register", "login", "/login", "/logout"}) =>
             /\ ret' = RedirectLogin
             /\ UNCHANGED <<db_vars, session, clock, mm_vars, side_vars>>
       /\ \A s \in Sessions :
             (session'[s] # session[s] /\ session'[s] # NoneId) =>
                /\ ret'.op = "login" /\ ret'.status = "Welcome"
                /\ ret'.user_id = session'[s]
                /\ \E identifier \in Usernames \cup Emails, password \in {"pw1", "pw2", "bad"} :
                      \E r \in AuthLogin(identifier, password) :
                         r.success /\ \E user \in r.user : user.id = session'[s]]_vars

\* a route behind the login was requested from a session without user_id while an
\* account with a stored prediction existed
C20_Witness ==
    /\ ret = RedirectLogin
    /\ \A s \in Sessions : session[s] = NoneId
    /\ \E u \in users : \E r \in logs : r.user_id = u.id

\* C21: every get_heart_model call that returns, rather than raising, returns a
\* HeartDiseaseModel on which load_model has already completed successfully, also
\* after an earlier call's load_model raised for a missing artifact and while
\* another request is still inside load_model.
C21_ReturnsLoadedModel ==
    \A t \in Threads :
        (model_req[t].pc = "idle" /\ model_req[t].exc = NoExc /\ model_req[t].heart # NoneId)
            => heart_instances[model_req[t].heart] = "loaded"

\* C22: for every form mapping, with fields present, missing or extra, the features
\* dict handed to the model has exactly the 13 keys age, sex, cp, trestbps, chol, fbs,
\* restecg, thalach, exang, oldpeak, slope, ca, thal in that order, each bound to the
\* normalized value of the same-named form field; a field outside this set reaches
\* neither the model nor the input summary.
C22_FixedFeatureVector ==
    (ret.op = "predict_heart_disease" /\ ret.status = "ok") =>
        \A result \in ret.out :
            /\ [i \in 1..Len(result.features) |-> result.features[i].key] =
                  <<"age", "sex", "cp", "trestbps", "chol", "fbs", "restecg",
                    "thalach", "exang", "oldpeak", "slope", "ca", "thal">>
            /\ \A i \in 1..Len(result.features) :
                  result.features[i].value =
                      ParseField(ret.input, result.features[i].key).val
            /\ result.input_summary =
                  [i \in 1..13 |-> <<result.features[i].key, "=", result.features[i].value>>]
            /\ \A r \in logs :
                  r.id = result.log_id => r.input_summary = result.input_summary

\* a form without the field cp and with the unknown field note was predicted on
C22_Witness ==
    /\ ret.op = "predict_heart_disease" /\ ret.status = "ok" /\ ret.out # {}
    /\ "note" \in DOMAIN ret.input /\ "cp" \notin DOMAIN ret.input
    /\ ret.log_id # NoneId

C26_OwnUploadPredicted ==
    (ret.op = "predict_brain_tumor" /\ ret.status = "ok") =>
        LET posted == BrainPredict(ret.input.content).result["predicted_class"]
        IN /\ \A result \in ret.out : result.predicted_class = posted
           /\ \A r \in logs : r.id = ret.log_id =>
                 (r.user_id = ret.user_id /\ r.prediction_result = posted)

\* C27: send_message returns a fixed reply, without reading the prediction log,
\* without requiring the API key and without calling the LLM, whenever the message is
\* empty or contains none of the medical keywords as a substring, whatever the case of
\* its letters; for a message that passes the guard a missing API key raises
\* RuntimeError, while a failing LLM call and an unexpected response shape are each
\* returned as a fixed apology and never raised.
C27_ChatbotGuardAndFailures ==
    ret.op = "send_message" =>
        LET user_message == ret.input[1]
            env == ret.input[2]
            lowered == [i \in 1..Len(user_message) |-> LowerChar(user_message[i])]
            keywords == {<<"h", "e", "a", "r", "t">>, <<"b", "r", "a", "i", "n">>,
                         <<"t", "u", "m", "o", "r">>, <<"d", "i", "s", "e", "a", "s", "e">>,
                         <<"s", "y", "m", "p", "t", "o", "m">>, <<"d", "o", "c", "t", "o", "r">>,
                         <<"h", "o", "s", "p", "i", "t", "a", "l">>,
                         <<"m", "e", "d", "i", "c", "i", "n", "e">>,
                         <<"m", "e", "d", "i", "c", "a", "l">>, <<"m", "r", "i">>,
                         <<"s", "c", "a", "n">>, <<"b", "l", "o", "o", "d">>,
                         <<"p", "r", "e", "s", "s", "u", "r", "e">>,
                         <<"c", "h", "o", "l", "e", "s", "t", "e", "r", "o", "l">>,
                         <<"p", "a", "i", "n">>, <<"t", "r", "e", "a", "t", "m", "e", "n", "t">>,
                         <<"h", "e", "a", "l", "t", "h">>, <<"d", "i", "e", "t">>}
            medical == \E keyword \in keywords :
                          \E i \in 1..(Len(lowered) - Len(keyword) + 1) :
                              SubSeq(lowered, i, i + Len(keyword) - 1) = keyword
        IN \A call \in ret.out :
              IF user_message = <<>> \/ ~medical
              THEN /\ ret.status = "ok"
                   /\ call.reply = IF user_message = <<>>
                                   THEN "Please enter a message so I can help you."
                                   ELSE "I'm designed only for medical and health-related questions."
                   /\ ~call.context_read /\ ~call.key_required /\ ~call.llm_called
              ELSE IF env = "no_key"
              THEN ret.status = "RuntimeError" /\ call.names_key /\ ~call.llm_called
              ELSE /\ ret.status = "ok" /\ call.llm_called
                   /\ env = "llm_error" =>
                         call.reply = "I'm sorry, but I'm having trouble contacting the AI model right now."
                   /\ env = "llm_bad_format" =>
                         call.reply = "I received an unexpected response format from the AI model."

\* the message PAINT, which holds the keyword pain in capitals, passed the guard and
\* the LLM call failed: the apology was returned
C27_Witness ==
    /\ ret.op = "send_message" /\ ret.status = "ok"
    /\ ret.input = <<<<"P", "A", "I", "N", "T">>, "llm_error">>
    /\ \A call \in ret.out : call.llm_called

\* C28: a login identifier resolves to at most one account: for every text at most
\* one users row has it as email or as username, so register accepts neither a
\* username equal to another user's email nor an email equal to another user's
\* username.
C28_IdentifierResolvesToOneAccount ==
    \A name \in {"ann", "ann@x", "amy@x", "bob", "bob@x"} :
        \A u1, u2 \in users :
            (name \in {u1.email, u1.username} /\ name \in {u2.email, u2.username}) => u1 = u2

\* C29: clear_prediction_history(user_id) touches only that user's logs: every
\* prediction_logs row with another user_id and every users row is the same after the
\* call as before it, no row is added, and the call returns its success message also
\* when the user has no logs.
C29_ClearHistoryFrame ==
    [][ret'.op = "clear_prediction_history" =>
          /\ ret'.status = "Prediction history cleared."
          /\ users' = users /\ user_seq' = user_seq /\ log_seq' = log_seq
          /\ logs' \subseteq logs
          /\ \A r \in logs : r.user_id # ret'.user_id => r \in logs'
          /\ \A r \in logs' : r.user_id # ret'.user_id]_vars

\* a user without logs cleared the history while a row of the other user was stored:
\* nothing was removed
C29_Witness ==
    /\ ret.op = "clear_prediction_history" /\ ret.status = "Prediction history cleared."
    /\ \E o \in ret.out : o.rowcount = 0
    /\ \E r \in logs : r.user_id # ret.user_id
    /\ \E u \in users : u.id = ret.user_id

\* C30: in the dict predict_brain_tumor returns, is_tumor is true exactly when
\* predicted_class is glioma, meningioma or pituitary, and the suggestion is the tumor
\* follow-up message (consult a neurologist or neurosurgeon) exactly when is_tumor is
\* true; for every other predicted_class, 'unknown' included, it is the no-finding
\* message.
C30_BrainResultConsistent ==
    (ret.op = "predict_brain_tumor" /\ ret.status = "ok") =>
        \A result \in ret.out :
            /\ result.is_tumor <=>
                  result.predicted_class \in {"glioma", "meningioma", "pituitary"}
            /\ result.suggestion = IF result.is_tumor
                                   THEN "consult a neurologist or neurosurgeon"
                                   ELSE "no_tumor: consult a neurologist or radiologist"

====
